---- MODULE Spec2Model ----
(***************************************************************************)
(* Model of the epistemic-state derivation engine of the memory CLI:       *)
(* finding confidence decay and staleness tiers (internal/models/          *)
(* breadcrumb.go), the 13-dimension vector model (internal/models/         *)
(* project.go), and the session synthesizer and decision guidance of the   *)
(* command layer (calculateEpistemicState, buildDecisionGuidance,          *)
(* checkFileChanged).                                                      *)
(*                                                                         *)
(* Numbers.  A float64 value x of the program is the integer x * Scale     *)
(* (fixed point, six decimals); Pct(n) is the literal n/100.  Time is in   *)
(* whole hours.  The exponential exp(-ln 2 / H * t) is 2^(-t/H); it is     *)
(* evaluated from a table of 2^(-k/336), k = 0..335 (336 hours = the       *)
(* 14-day half-life), rounded to six decimals.                             *)
(*                                                                         *)
(* The fixed-point sums are exact where float64 rounds; every value agrees *)
(* with the float64 one to six decimals.  Where the rounding decides a     *)
(* comparison the model keeps it: with 7 open and 7 resolved unknowns      *)
(* float64 gives 0.5 + 0.7 - 0.7 = 0.5000000000000001, which is above the  *)
(* 0.50 threshold, and the model gives 0.5 plus one unit of the sixth      *)
(* decimal (RoundedAboveHalf).                                             *)
(***************************************************************************)
EXTENDS Integers, Sequences, FiniteSets, TLC

Scale == 1000 * 1000

Pct(n) == n * (Scale \div 100)

\* Optional values (Go pointers): None is nil, Some(x) a pointer to x.
None == << >>

Some(x) == << x >>

IsSome(o) == o # << >>

Val(o) == o[1]

\* x * w for a float64 x and a two-decimal literal w (0.5, 0.30, ...)
Times(x, w) == (x * (w \div Pct(1))) \div 100

\* float64(a) / float64(b) for integers a, b with b # 0
Ratio(a, b) == (a * Scale) \div b

(***************************************************************************)
(* Exponential decay                                                       *)
(***************************************************************************)

\* internal/models/breadcrumb.go: DecayHalfLifeDays = 14.0
DecayHalfLifeDays == 14

\* hours in a day: the divisor (24 * 60 * 60) seconds of CalculateConfidence
HoursPerDay == 24

\* calculateEpistemicState: lambda := math.Log(2) / 2.0, a 2-hour half-life
EngagementHalfLifeHours == 2

\* round(Scale * 2^(-k/336)) for k = 0 .. 335, entry k at index k + 1
Pow2Table ==
   <<
      1000000, 997939, 995883, 993830, 991782, 989738, 987699, 985663, 983632, 981605, 979582, 977563,
      975549, 973538, 971532, 969530, 967532, 965538, 963548, 961562, 959581, 957603, 955630, 953660,
      951695, 949734, 947777, 945823, 943874, 941929, 939988, 938051, 936118, 934189, 932263, 930342,
      928425, 926512, 924602, 922697, 920795, 918898, 917004, 915114, 913228, 911346, 909468, 907594,
      905724, 903857, 901994, 900136, 898281, 896429, 894582, 892738, 890899, 889063, 887231, 885402,
      883577, 881757, 879939, 878126, 876316, 874511, 872708, 870910, 869115, 867324, 865537, 863753,
      861973, 860196, 858424, 856655, 854889, 853128, 851369, 849615, 847864, 846117, 844373, 842633,
      840896, 839163, 837434, 835708, 833986, 832267, 830552, 828841, 827133, 825428, 823727, 822029,
      820335, 818645, 816958, 815274, 813594, 811917, 810244, 808574, 806908, 805245, 803586, 801930,
      800277, 798628, 796982, 795340, 793701, 792065, 790433, 788804, 787178, 785556, 783937, 782321,
      780709, 779100, 777495, 775892, 774293, 772698, 771105, 769516, 767930, 766348, 764769, 763193,
      761620, 760050, 758484, 756921, 755361, 753804, 752251, 750701, 749154, 747610, 746069, 744531,
      742997, 741466, 739938, 738413, 736891, 735373, 733857, 732345, 730836, 729330, 727827, 726327,
      724830, 723336, 721845, 720358, 718873, 717392, 715913, 714438, 712966, 711497, 710030, 708567,
      707107, 705650, 704195, 702744, 701296, 699851, 698408, 696969, 695533, 694099, 692669, 691242,
      689817, 688395, 686977, 685561, 684148, 682738, 681331, 679927, 678526, 677128, 675732, 674340,
      672950, 671563, 670179, 668798, 667420, 666045, 664672, 663302, 661935, 660571, 659210, 657851,
      656496, 655143, 653793, 652445, 651101, 649759, 648420, 647084, 645750, 644419, 643091, 641766,
      640443, 639124, 637806, 636492, 635180, 633871, 632565, 631261, 629961, 628662, 627367, 626074,
      624784, 623496, 622211, 620929, 619649, 618372, 617098, 615826, 614557, 613291, 612027, 610765,
      609507, 608251, 606997, 605746, 604498, 603252, 602009, 600768, 599530, 598295, 597062, 595831,
      594604, 593378, 592155, 590935, 589717, 588502, 587289, 586079, 584871, 583666, 582463, 581263,
      580065, 578869, 577676, 576486, 575298, 574112, 572929, 571748, 570570, 569394, 568221, 567050,
      565881, 564715, 563551, 562390, 561231, 560074, 558920, 557768, 556619, 555472, 554327, 553185,
      552045, 550907, 549772, 548639, 547508, 546380, 545254, 544130, 543009, 541890, 540773, 539659,
      538547, 537437, 536329, 535224, 534121, 533020, 531922, 530825, 529732, 528640, 527550, 526463,
      525378, 524296, 523215, 522137, 521061, 519987, 518915, 517846, 516779, 515714, 514651, 513591,
      512532, 511476, 510422, 509370, 508320, 507273, 506227, 505184, 504143, 503104, 502067, 501033
   >>

TableLen == Len(Pow2Table)

RECURSIVE TwoTo(_)
TwoTo(n) == IF n <= 0 THEN 1 ELSE 2 * TwoTo(n - 1)

\* math.Exp(-(math.Log(2) / halfLife) * elapsed) = 2^(-elapsed/halfLife), for a
\* half-life (in hours) that divides 336.  A negative elapsed time gives a value
\* above Scale, as math.Exp of a positive argument does.
ExpDecay(elapsed, halfLife) ==
   LET k == elapsed * (TableLen \div halfLife)
       q == k \div TableLen
       r == k % TableLen
   IN  IF q >= 0 THEN Pow2Table[r + 1] \div TwoTo(q)
                 ELSE Pow2Table[r + 1] * TwoTo(-q)

(***************************************************************************)
(* Findings: confidence and staleness                                      *)
(***************************************************************************)

StatusFresh == "fresh"

StatusAging == "aging"

StatusStale == "stale"

\* FileChangeConfidenceMultiplier = 0.5
FileChangeConfidenceMultiplier == Pct(50)

\* CalculateConfidence that counts the elapsed time in whole days
CalculateConfidenceWholeDays(f, t) ==
   LET baseTime == IF IsSome(f.LastVerifiedTimestamp)
                      THEN Val(f.LastVerifiedTimestamp)
                      ELSE f.CreatedTimestamp
   IN  ExpDecay(((t - baseTime) \div HoursPerDay) * HoursPerDay,
                DecayHalfLifeDays * HoursPerDay)

\* Finding.CalculateConfidence at clock value t (time.Now())
CalculateConfidence(f, t) ==
   LET baseTime == IF IsSome(f.LastVerifiedTimestamp)
                      THEN Val(f.LastVerifiedTimestamp)
                      ELSE f.CreatedTimestamp
   IN  ExpDecay(t - baseTime, DecayHalfLifeDays * HoursPerDay)

\* StalenessTier with the fresh threshold exclusive (> 0.70 for >= 0.70)
StalenessTierExclusive(confidence, fileChanged) ==
   LET c == IF fileChanged
               THEN Times(confidence, FileChangeConfidenceMultiplier)
               ELSE confidence
   IN  IF c > Pct(70) THEN StatusFresh
       ELSE IF c >= Pct(40) THEN StatusAging
       ELSE StatusStale

\* The file-change penalty and the tier thresholds of GetStalenessStatus,
\* applied to a confidence value.
StalenessTier(confidence, fileChanged) ==
   LET c == IF fileChanged
               THEN Times(confidence, FileChangeConfidenceMultiplier)
               ELSE confidence
   IN  IF c >= Pct(70) THEN StatusFresh
       ELSE IF c >= Pct(40) THEN StatusAging
       ELSE StatusStale

\* Finding.GetStalenessStatus(fileChanged) at clock value t
GetStalenessStatus(f, t, fileChanged) ==
   StalenessTier(CalculateConfidence(f, t), fileChanged)

(***************************************************************************)
(* Epistemic vector model: EpistemicVectors                                *)
(***************************************************************************)

\* CanonicalWeights
WeightFoundation == Pct(35)

WeightComprehension == Pct(25)

WeightExecution == Pct(25)

WeightEngagement == Pct(15)

EngagementThreshold == Pct(60)

ConfidenceLow == Pct(50)

UncertaintyModerate == Pct(50)

\* CriticalThresholds["coherence_min"], CriticalThresholds["density_max"]
CoherenceMin == Pct(50)

DensityMax == Pct(90)

ActionProceed == "proceed"

ActionInvestigate == "investigate"

ActionClarify == "clarify"

ActionReset == "reset"

ActionStop == "stop"

FoundationScore(v) == (v.Know + v.Do + v.Context) \div 3

ComprehensionScore(v) == (v.Clarity + v.Coherence + v.Signal + v.Density) \div 4

ExecutionScore(v) == (v.State + v.Change + v.Completion + v.Impact) \div 4

\* math.Max(0, math.Min(1, base - penalty))
OverallConfidence(v) ==
   LET foundation    == Times(FoundationScore(v), WeightFoundation)
       comprehension == Times(ComprehensionScore(v), WeightComprehension)
       execution     == Times(ExecutionScore(v), WeightExecution)
       engagement    == Times(v.Engagement, WeightEngagement)
       base          == foundation + comprehension + execution + engagement
       penalty       == Times(v.Uncertainty, Pct(15))
       capped        == IF base - penalty < Scale THEN base - penalty ELSE Scale
   IN  IF capped > 0 THEN capped ELSE 0

PassesEngagementGate(v) == v.Engagement >= EngagementThreshold

IsReadyToProceed(v) ==
   /\ PassesEngagementGate(v)
   /\ v.Know >= ConfidenceLow
   /\ v.Uncertainty <= UncertaintyModerate

NeedsInvestigation(v) ==
   v.Know < ConfidenceLow \/ v.Uncertainty > UncertaintyModerate

\* RecommendedAction with the coherence check ahead of the engagement gate
RecommendedActionCoherenceFirst(v) ==
   IF v.Coherence < CoherenceMin THEN ActionReset
   ELSE IF ~PassesEngagementGate(v) THEN ActionStop
   ELSE IF v.Density > DensityMax THEN ActionClarify
   ELSE IF NeedsInvestigation(v) THEN ActionInvestigate
   ELSE ActionProceed

RecommendedAction(v) ==
   IF ~PassesEngagementGate(v) THEN ActionStop
   ELSE IF v.Coherence < CoherenceMin THEN ActionReset
   ELSE IF v.Density > DensityMax THEN ActionClarify
   ELSE IF NeedsInvestigation(v) THEN ActionInvestigate
   ELSE ActionProceed

(***************************************************************************)
(* State                                                                   *)
(***************************************************************************)
VARIABLES
   now,               \* time.Now(), in hours
   gitHash,           \* what `git hash-object <path>` prints now; "" when it fails
   findings,          \* calculateEpistemicState's arguments ...
   openUnknowns,
   resolvedUnknowns,
   deadEnds,
   sessionStart,      \* ... the active session's StartedAt
   epistemic,         \* the *EpistemicState returned, None before the call
   guidance,          \* the *DecisionGuidance built from it, None before the call
   vectors,           \* an EpistemicVectors value, None when there is none
   assessment,        \* what the vector model's methods return for it
   subject,           \* a finding (or a bare confidence) whose tier is asked for
   staleness,         \* the confidence and tier returned for it
   sessionContext,    \* ctx.RequiresVerification and ctx.Knowledge, None before
   oracle,            \* checkFileChanged's arguments and, after the call, its result
   projectFindings,   \* table project_findings: id -> row
   projectUnknowns,   \* table project_unknowns: id -> row
   result,            \* what the last store call or command returned
   search,            \* FuzzySearch's arguments: query, items, threshold
   results,           \* the []SearchResult returned, None before the call
   activeSession,     \* the active-session.json file, None when there is none
   sessions,          \* table sessions: id -> row
   handoffs,          \* table handoff_reports, oldest first
   projectDeadEnds,   \* table project_dead_ends: id -> row
   goals              \* table goals: id -> row

\* the variables of the breadcrumb store and its commands
storeVars == << projectFindings, projectUnknowns, result >>

\* the variables of the fuzzy text matcher
searchVars == << search, results >>

\* the active session file and the tables of the session commands and goals
adminVars == << activeSession, sessions, handoffs, projectDeadEnds, goals >>

vars == << now, gitHash, findings, openUnknowns, resolvedUnknowns, deadEnds,
           sessionStart, epistemic, guidance, vectors, assessment, subject,
           staleness, sessionContext, oracle, storeVars, searchVars, adminVars >>

(***************************************************************************)
(* File-change oracle                                                      *)
(***************************************************************************)

\* getFileGitHash: the trimmed output of git hash-object, "" on any error
getFileGitHash(filePath) ==
   IF filePath \in DOMAIN gitHash THEN gitHash[filePath] ELSE ""

\* checkFileChanged without the empty-hash guards
checkFileChangedUnguarded(filePath, storedHash) ==
   getFileGitHash(filePath) # storedHash

checkFileChanged(filePath, storedHash) ==
   IF storedHash = "" \/ filePath = "" THEN FALSE
   ELSE LET currentHash == getFileGitHash(filePath)
        IN  IF currentHash = "" THEN FALSE
            ELSE currentHash # storedHash

\* The callers' guard: fileChanged stays false unless Subject and
\* SubjectGitHash are both set.
FileChangedOf(f) ==
   IF IsSome(f.Subject) /\ IsSome(f.SubjectGitHash)
      THEN checkFileChanged(Val(f.Subject), Val(f.SubjectGitHash))
      ELSE FALSE

(***************************************************************************)
(* Session epistemic-state synthesizer: calculateEpistemicState            *)
(***************************************************************************)

\* KnowOf without the cap at 1.0
KnowOfUncapped(fs, resolved) ==
   Pct(50) + Len(fs) * Pct(10) + Len(resolved) * Pct(15)

\* Know: base 0.5 + findings x 0.1 + resolved x 0.15, capped at 1.0
KnowOf(fs, resolved) ==
   LET know == Pct(50) + Len(fs) * Pct(10) + Len(resolved) * Pct(15)
   IN  IF know > Scale THEN Scale ELSE know

\* The counts n <= 100 for which the float64 value of 0.5 + n x 0.1 - n x 0.1,
\* evaluated left to right with each operation rounded (the amd64 build), is
\* above 0.5: 0.5 + 0.7000000000000001 = 1.2000000000000002, and subtracting
\* 0.7000000000000001 leaves 0.5000000000000001.  (For n = 2, 9, 18, 36, 77
\* the value is below 0.5, which no comparison with 0.50 in the program tells
\* from 0.5; for unequal counts the sum is at least 0.1 away from 0.5.)
RoundedAboveHalf == { 7, 19, 38, 76 }

\* Uncertainty: base 0.5 + open x 0.1 - resolved x 0.1, clamped to [0, 1]; a
\* float64 sum just above 0.5 is one unit of the sixth decimal above it
UncertaintyOf(open, resolved) ==
   LET exact == Pct(50) + Len(open) * Pct(10) - Len(resolved) * Pct(10)
       u     == IF Len(open) = Len(resolved) /\ Len(open) \in RoundedAboveHalf
                   THEN exact + 1
                   ELSE exact
   IN  IF u < 0 THEN 0 ELSE IF u > Scale THEN Scale ELSE u

\* the loop counting the findings whose tier is fresh
FreshCount(fs, t) ==
   Cardinality({i \in 1..Len(fs) :
                  GetStalenessStatus(fs[i], t, FileChangedOf(fs[i])) = StatusFresh})

\* ClarityOf with the zero value instead of the neutral 0.5 for no findings
ClarityOfZeroDefault(fs, t) ==
   IF Len(fs) > 0 THEN Ratio(FreshCount(fs, t), Len(fs)) ELSE 0

\* Clarity: ratio of fresh findings, 0.5 when there are no findings
ClarityOf(fs, t) ==
   IF Len(fs) > 0 THEN Ratio(FreshCount(fs, t), Len(fs)) ELSE Pct(50)

\* Coherence: 1.0 - dead ends / total breadcrumbs, 1.0 when nothing is logged
CoherenceOf(fs, open, resolved, dead) ==
   LET totalBreadcrumbs == Len(fs) + Len(open) + Len(resolved) + Len(dead)
   IN  IF totalBreadcrumbs > 0
          THEN Scale - Ratio(Len(dead), totalBreadcrumbs)
          ELSE Scale

\* CompletionOf with the share of the open unknowns instead of the resolved ones
CompletionOfOpenShare(open, resolved) ==
   LET totalUnknowns == Len(open) + Len(resolved)
   IN  IF totalUnknowns > 0 THEN Ratio(Len(open), totalUnknowns) ELSE Pct(50)

\* Completion: resolved / total unknowns, 0.5 when there are no unknowns
CompletionOf(open, resolved) ==
   LET totalUnknowns == Len(open) + Len(resolved)
   IN  IF totalUnknowns > 0 THEN Ratio(Len(resolved), totalUnknowns) ELSE Pct(50)

\* EngagementOf with the decay starting again every three hours
EngagementOfRestored(start, t) ==
   LET hoursSinceStart == (t - start) % 3
       e == ExpDecay(hoursSinceStart, EngagementHalfLifeHours)
   IN  IF e < Pct(10) THEN Pct(10) ELSE e

\* Engagement: 2-hour half-life decay since the session start, at least 0.1
EngagementOf(start, t) ==
   LET hoursSinceStart == t - start
       e == ExpDecay(hoursSinceStart, EngagementHalfLifeHours)
   IN  IF e < Pct(10) THEN Pct(10) ELSE e

\* ConfidenceOf without the upper clamp
ConfidenceOfNoCap(know, clarity, coherence, completion, engagement, uncertainty) ==
   LET c == (know * 30 + clarity * 20 + coherence * 20 + completion * 15
             + engagement * 15 - uncertainty * 15) \div 100
   IN  IF c < 0 THEN 0 ELSE c

\* Overall confidence score, clamped to [0, 1]
ConfidenceOf(know, clarity, coherence, completion, engagement, uncertainty) ==
   LET c == (know * 30 + clarity * 20 + coherence * 20 + completion * 15
             + engagement * 15 - uncertainty * 15) \div 100
   IN  IF c < 0 THEN 0 ELSE IF c > Scale THEN Scale ELSE c

\* the derived flag state.ReadyToProceed
ReadyToProceedOf(know, uncertainty) ==
   know >= Pct(50) /\ uncertainty <= Pct(50)

\* the derived flag state.NeedsInvestigation
NeedsInvestigationOf(know, uncertainty) ==
   know < Pct(50) \/ uncertainty > Pct(50)

\* ActionOf with the investigate check ahead of the verify check
ActionOfInvestigateFirst(passesGate, coherence, clarity, needsInvestigation) ==
   IF ~passesGate THEN "stop"
   ELSE IF coherence < Pct(50) THEN "reset"
   ELSE IF needsInvestigation THEN "investigate"
   ELSE IF clarity < Pct(40) THEN "verify"
   ELSE "proceed"

\* the if/else chain that sets state.RecommendedAction
ActionOf(passesGate, coherence, clarity, needsInvestigation) ==
   IF ~passesGate THEN "stop"
   ELSE IF coherence < Pct(50) THEN "reset"
   ELSE IF clarity < Pct(40) THEN "verify"
   ELSE IF needsInvestigation THEN "investigate"
   ELSE "proceed"

\* getMoonPhase: the confidence band (the emoji are named by their comments)
getMoonPhase(confidence) ==
   IF confidence < Pct(25) THEN "critical"
   ELSE IF confidence < Pct(50) THEN "low"
   ELSE IF confidence < Pct(75) THEN "moderate"
   ELSE IF confidence < Pct(90) THEN "good"
   ELSE "excellent"

calculateEpistemicState(fs, open, resolved, dead, start, t) ==
   LET know        == KnowOf(fs, resolved)
       uncertainty == UncertaintyOf(open, resolved)
       clarity     == ClarityOf(fs, t)
       coherence   == CoherenceOf(fs, open, resolved, dead)
       completion  == CompletionOf(open, resolved)
       engagement  == EngagementOf(start, t)
       confidence  == ConfidenceOf(know, clarity, coherence, completion,
                                   engagement, uncertainty)
       gate        == engagement >= Pct(60)
       needs       == NeedsInvestigationOf(know, uncertainty)
   IN  [ Know                 |-> know,
         Uncertainty          |-> uncertainty,
         Clarity              |-> clarity,
         Coherence            |-> coherence,
         Completion           |-> completion,
         Engagement           |-> engagement,
         Confidence           |-> confidence,
         PassesEngagementGate |-> gate,
         ReadyToProceed       |-> ReadyToProceedOf(know, uncertainty),
         NeedsInvestigation   |-> needs,
         RecommendedAction    |-> ActionOf(gate, coherence, clarity, needs),
         MoonPhase            |-> getMoonPhase(confidence) ]

(***************************************************************************)
(* Decision guidance: buildDecisionGuidance                                *)
(***************************************************************************)

\* A message: its format string and the integers interpolated into it.
Msg(format, args) == [ format |-> format, args |-> args ]

ReasonReady ==
   Msg("Knowledge is fresh and uncertainty is manageable. Safe to proceed with the task.", << >>)

ReasonInvestigate ==
   Msg("Uncertainty is high or knowledge is low. Gather more information before acting.", << >>)

ReasonVerify(staleCount) ==
   Msg("%d finding(s) may be outdated. Verify before relying on them.", << staleCount >>)

ReasonReset ==
   Msg("Too many failed approaches have reduced coherence. Consider a fresh approach.", << >>)

ReasonStop ==
   Msg("Session engagement is too low. Consider taking a break or starting fresh.", << >>)

ReasonCaution == Msg("Proceed with caution.", << >>)

PrereqResolve(n) == Msg("Resolve %d open question(s)", << n >>)

\* the command names stand without their backquotes
PrereqLearn == Msg("Log discoveries with memory learned", << >>)

PrereqVerify == Msg("Verify stale findings with memory verify", << >>)

PrereqReview(n) == Msg("Review %d dead end(s) to avoid repeating mistakes", << n >>)

\* the loop counting the findings whose tier is stale
StaleCount(fs, t) ==
   Cardinality({i \in 1..Len(fs) :
                  GetStalenessStatus(fs[i], t, FileChangedOf(fs[i])) = StatusStale})

\* the reason and the prerequisites chosen for an epistemic state
GuidanceText(e, staleCount, open, dead) ==
   IF e.ReadyToProceed
      THEN [ Reason |-> ReasonReady, Prerequisites |-> << >> ]
   ELSE IF e.RecommendedAction = "investigate"
      THEN [ Reason        |-> ReasonInvestigate,
             Prerequisites |->
                (IF Len(open) > 0 THEN << PrereqResolve(Len(open)) >> ELSE << >>)
                \o (IF e.Know < Pct(50) THEN << PrereqLearn >> ELSE << >>) ]
   ELSE IF e.RecommendedAction = "verify"
      THEN [ Reason |-> ReasonVerify(staleCount), Prerequisites |-> << PrereqVerify >> ]
   ELSE IF e.RecommendedAction = "reset"
      THEN [ Reason        |-> ReasonReset,
             Prerequisites |->
                IF Len(dead) > 0 THEN << PrereqReview(Len(dead)) >> ELSE << >> ]
   ELSE IF e.RecommendedAction = "stop"
      THEN [ Reason |-> ReasonStop, Prerequisites |-> << >> ]
   ELSE [ Reason |-> ReasonCaution, Prerequisites |-> << >> ]

buildDecisionGuidance(e, fs, open, dead, t) ==
   LET text == GuidanceText(e, StaleCount(fs, t), open, dead)
   IN  [ ReadyToProceed  |-> e.ReadyToProceed,
         Action          |-> e.RecommendedAction,
         ConfidencePhase |-> e.MoonPhase,
         Confidence      |-> e.Confidence,
         Reason          |-> text.Reason,
         Prerequisites   |-> text.Prerequisites ]

(***************************************************************************)
(* Findings by staleness: the loop of buildSessionContext                  *)
(***************************************************************************)

\* int(x / y) of Go: the quotient truncated toward zero
TruncDiv(x, y) == IF x >= 0 THEN x \div y ELSE -((-x) \div y)

\* int(f.DaysSinceVerified())
DaysSinceVerified(f, t) ==
   LET baseTime == IF IsSome(f.LastVerifiedTimestamp)
                      THEN Val(f.LastVerifiedTimestamp)
                      ELSE f.CreatedTimestamp
   IN  TruncDiv(t - baseTime, HoursPerDay)

ListRequiresVerification == "requires_verification"

ListKnowledge == "knowledge"

\* the switch with aging findings sent to verification too
CategoryOfAgingToVerification(status) ==
   CASE status \in { StatusStale, StatusAging } -> ListRequiresVerification
     [] status = StatusFresh -> ListKnowledge
     [] OTHER -> ""

\* switch status: which list of the context the finding is appended to
CategoryOf(status) ==
   CASE status = StatusStale -> ListRequiresVerification
     [] status \in { StatusFresh, StatusAging } -> ListKnowledge
     [] OTHER -> ""

\* the values the loop body computes for one finding
Categorized(f, t) ==
   LET fileChanged == FileChangedOf(f)
       status      == GetStalenessStatus(f, t, fileChanged)
   IN  [ scope       |-> IF IsSome(f.Subject) THEN Val(f.Subject) ELSE "",
         fileChanged |-> fileChanged,
         status      |-> status,
         confidence  |-> CalculateConfidence(f, t),
         daysStale   |-> DaysSinceVerified(f, t),
         category    |-> CategoryOf(status) ]

VerificationNeeded(c) ==
   [ DaysStale   |-> c.daysStale,
     Confidence  |-> c.confidence,
     FileChanged |-> c.fileChanged,
     Scope       |-> c.scope ]

KnowledgeItem(c) ==
   [ Confidence |-> c.confidence,
     Status     |-> IF c.status = StatusAging THEN "aging" ELSE "fresh",
     Scope      |-> c.scope ]

\* ctx.RequiresVerification and ctx.Knowledge after the loop over the findings
categorizeFindings(fs, t) ==
   LET all    == [ i \in DOMAIN fs |-> Categorized(fs[i], t) ]
       verify == SelectSeq(all, LAMBDA c : c.category = ListRequiresVerification)
       known  == SelectSeq(all, LAMBDA c : c.category = ListKnowledge)
   IN  [ RequiresVerification |-> [ i \in DOMAIN verify |-> VerificationNeeded(verify[i]) ],
         Knowledge            |-> [ i \in DOMAIN known |-> KnowledgeItem(known[i]) ] ]

(***************************************************************************)
(* Inputs                                                                  *)
(***************************************************************************)

\* list lengths explored
MaxFindings == 3

MaxOpen == 7

MaxResolved == 7

MaxDeadEnds == 2

\* the clock value of the calls, in hours
Epoch == 100 * HoursPerDay

Finding(created, verified, subj, hash) ==
   [ CreatedTimestamp      |-> created,
     LastVerifiedTimestamp |-> verified,
     Subject               |-> subj,
     SubjectGitHash        |-> hash ]

\* Hours between a finding's base timestamp and the clock: either side of each
\* tier threshold, with and without the file-change penalty, and two in the future.
AgeSamples == { -336, -164, -163, 0, 108, 109, 172, 173, 336, 444, 445, 480 }

\* Findings whose tier is asked for: never verified, or verified after creation.
SubjectFindings ==
   { Finding(Epoch - 600, Some(Epoch - a), None, None) : a \in AgeSamples }
   \cup { Finding(Epoch - a, None, Some("a.go"), Some("h1")) : a \in AgeSamples }

\* Confidence values on and next to each tier boundary, before the penalty.
ConfidenceSamples ==
   { 0, Pct(40) - 1, Pct(40), Pct(70) - 1, Pct(70), Pct(80) - 2, Pct(80),
     Scale, Pct(140) - 2, Pct(140), Pct(200) }

\* The findings listed for a session: a fresh one, a fresh one whose file has
\* changed, a stale one, and an old one verified two days ago.
ListedFindings ==
   { Finding(Epoch - 1, None, None, None),
     Finding(Epoch - 2, None, Some("a.go"), Some("h1")),
     Finding(Epoch - 480, None, None, None),
     Finding(Epoch - 500, Some(Epoch - 48), Some("b.go"), Some("h1")) }

\* hours since the session start: in the future, just started, one hour,
\* one half-life, and long ago
ElapsedSamples == { -2, 0, 1, 2, 7 }

SeqsUpTo(S, n) == UNION { [1..k -> S] : k \in 0..n }

\* ListFindingsWithStaleness returns the findings newest first
NewestFirst(fs) ==
   \A i \in 1..(Len(fs) - 1) : fs[i].CreatedTimestamp >= fs[i + 1].CreatedTimestamp

Unknown(isResolved) == [ IsResolved |-> isResolved ]

DeadEnd == [ Approach |-> "approach", WhyFailed |-> "why" ]

Repeat(x, n) == [ i \in 1..n |-> x ]

\* Vector values on either side of each decision threshold, and out of [0, 1].
Vector(e, k, c, d, u, o) ==
   [ Engagement |-> e, Know |-> k, Do |-> o, Context |-> o, Clarity |-> o,
     Coherence |-> c, Signal |-> o, Density |-> d, State |-> o, Change |-> o,
     Completion |-> o, Impact |-> o, Uncertainty |-> u ]

VectorSamples ==
   { Vector(e, k, c, d, u, o) :
        e \in { Pct(-100), Pct(59), Pct(60), Pct(300) },
        k \in { Pct(49), Pct(50) },
        c \in { Pct(49), Pct(50) },
        d \in { Pct(90), Pct(91) },
        u \in { Pct(-100), Pct(50), Pct(51), Pct(300) },
        o \in { Pct(-100), 0, Pct(50), Pct(100), Pct(300) } }

\* paths and stored hashes asked of the file-change oracle
PathSamples == { "", "a.go", "b.go" }

HashSamples == { "", "h1", "h2" }

\* git hash-object: a.go is tracked, b.go is not
GitNow == [ p \in { "a.go", "b.go" } |-> IF p = "a.go" THEN "h2" ELSE "" ]

(***************************************************************************)
(* Specification: the engine's functions applied to sampled inputs         *)
(***************************************************************************)

NoLists ==
   /\ findings = << >>
   /\ openUnknowns = << >>
   /\ resolvedUnknowns = << >>
   /\ deadEnds = << >>
   /\ sessionStart = None

\* a session with breadcrumb lists, before calculateEpistemicState
InitSession ==
   /\ findings \in { fs \in SeqsUpTo(ListedFindings, MaxFindings) : NewestFirst(fs) }
   /\ openUnknowns \in { Repeat(Unknown(FALSE), n) : n \in 0..MaxOpen }
   /\ resolvedUnknowns \in { Repeat(Unknown(TRUE), n) : n \in 0..MaxResolved }
   /\ deadEnds \in { Repeat(DeadEnd, n) : n \in 0..MaxDeadEnds }
   /\ sessionStart \in { Some(Epoch - h) : h \in ElapsedSamples }
   /\ vectors = None
   /\ subject = None
   /\ oracle = None

\* an explicitly submitted vector, before its assessment
InitVectors ==
   /\ NoLists
   /\ vectors \in { Some(v) : v \in VectorSamples }
   /\ subject = None
   /\ oracle = None

\* a finding, or a bare confidence, before its staleness tier is asked for
InitSubject ==
   /\ NoLists
   /\ vectors = None
   /\ subject \in
         { Some([ finding |-> Some(f), confidence |-> None, fileChanged |-> b ]) :
              f \in SubjectFindings, b \in BOOLEAN }
         \cup
         { Some([ finding |-> None, confidence |-> Some(c), fileChanged |-> b ]) :
              c \in ConfidenceSamples, b \in BOOLEAN }
   /\ oracle = None

\* a path and a stored hash, before checkFileChanged is asked about them
InitOracle ==
   /\ NoLists
   /\ vectors = None
   /\ subject = None
   /\ oracle \in { Some([ filePath |-> p, storedHash |-> h, changed |-> None ]) :
                      p \in PathSamples, h \in HashSamples }

\* no store is open and no search is asked for
StoreIdle ==
   /\ projectFindings = << >>
   /\ projectUnknowns = << >>
   /\ result = None

SearchIdle ==
   /\ search = None
   /\ results = None

\* no session is active and the session, handoff, dead-end and goal tables are empty
AdminIdle ==
   /\ activeSession = None
   /\ sessions = << >>
   /\ handoffs = << >>
   /\ projectDeadEnds = << >>
   /\ goals = << >>

Init ==
   /\ now = Epoch
   /\ gitHash = GitNow
   /\ epistemic = None
   /\ guidance = None
   /\ assessment = None
   /\ staleness = None
   /\ sessionContext = None
   /\ StoreIdle
   /\ SearchIdle
   /\ AdminIdle
   /\ (InitSession \/ InitVectors \/ InitSubject \/ InitOracle)

\* buildSessionContext, first step: epistemic := calculateEpistemicState(...)
CalculateEpistemicState ==
   /\ IsSome(sessionStart)
   /\ epistemic = None
   /\ epistemic' = Some(calculateEpistemicState(findings, openUnknowns,
                           resolvedUnknowns, deadEnds, Val(sessionStart), now))
   /\ UNCHANGED << now, gitHash, findings, openUnknowns, resolvedUnknowns, deadEnds,
                   sessionStart, guidance, vectors, assessment, subject, staleness >>
   /\ UNCHANGED << sessionContext, oracle, storeVars, searchVars, adminVars >>

\* buildSessionContext, second step: ctx.Decision := buildDecisionGuidance(...)
BuildDecisionGuidance ==
   /\ IsSome(epistemic)
   /\ guidance = None
   /\ guidance' = Some(buildDecisionGuidance(Val(epistemic), findings, openUnknowns,
                                             deadEnds, now))
   /\ UNCHANGED << now, gitHash, findings, openUnknowns, resolvedUnknowns, deadEnds,
                   sessionStart, epistemic, vectors, assessment, subject, staleness >>
   /\ UNCHANGED << sessionContext, oracle, storeVars, searchVars, adminVars >>

\* the vector model's methods called on a vector
AssessVectors ==
   /\ IsSome(vectors)
   /\ assessment = None
   /\ assessment' = Some([ OverallConfidence    |-> OverallConfidence(Val(vectors)),
                           PassesEngagementGate |-> PassesEngagementGate(Val(vectors)),
                           IsReadyToProceed     |-> IsReadyToProceed(Val(vectors)),
                           NeedsInvestigation   |-> NeedsInvestigation(Val(vectors)),
                           RecommendedAction    |-> RecommendedAction(Val(vectors)) ])
   /\ UNCHANGED << now, gitHash, findings, openUnknowns, resolvedUnknowns, deadEnds,
                   sessionStart, epistemic, guidance, vectors, subject, staleness >>
   /\ UNCHANGED << sessionContext, oracle, storeVars, searchVars, adminVars >>

\* f.CalculateConfidence() and f.GetStalenessStatus(fileChanged) on a finding
AskStaleness ==
   /\ IsSome(subject)
   /\ IsSome(Val(subject).finding)
   /\ staleness = None
   /\ LET f == Val(Val(subject).finding)
      IN  staleness' = Some([ confidence |-> CalculateConfidence(f, now),
                              status     |-> GetStalenessStatus(f, now,
                                                Val(subject).fileChanged) ])
   /\ UNCHANGED << now, gitHash, findings, openUnknowns, resolvedUnknowns, deadEnds,
                   sessionStart, epistemic, guidance, vectors, assessment, subject >>
   /\ UNCHANGED << sessionContext, oracle, storeVars, searchVars, adminVars >>

\* the penalty and thresholds of GetStalenessStatus on a given confidence
ClassifyConfidence ==
   /\ IsSome(subject)
   /\ IsSome(Val(subject).confidence)
   /\ staleness = None
   /\ LET c == Val(Val(subject).confidence)
      IN  staleness' = Some([ confidence |-> c,
                              status     |-> StalenessTier(c, Val(subject).fileChanged) ])
   /\ UNCHANGED << now, gitHash, findings, openUnknowns, resolvedUnknowns, deadEnds,
                   sessionStart, epistemic, guidance, vectors, assessment, subject >>
   /\ UNCHANGED << sessionContext, oracle, storeVars, searchVars, adminVars >>

\* buildSessionContext, third step: the findings categorized by staleness
CategorizeFindings ==
   /\ IsSome(guidance)
   /\ sessionContext = None
   /\ sessionContext' = Some(categorizeFindings(findings, now))
   /\ UNCHANGED << now, gitHash, findings, openUnknowns, resolvedUnknowns, deadEnds,
                   sessionStart, epistemic, guidance, vectors, assessment, subject,
                   staleness, oracle, storeVars, searchVars, adminVars >>

\* checkFileChanged(filePath, storedHash)
CheckFileChanged ==
   /\ IsSome(oracle)
   /\ Val(oracle).changed = None
   /\ oracle' = Some([ Val(oracle) EXCEPT
                         !.changed = Some(checkFileChanged(Val(oracle).filePath,
                                                           Val(oracle).storedHash)) ])
   /\ UNCHANGED << now, gitHash, findings, openUnknowns, resolvedUnknowns, deadEnds,
                   sessionStart, epistemic, guidance, vectors, assessment, subject,
                   staleness, sessionContext, storeVars, searchVars, adminVars >>

NextEngine ==
   \/ CalculateEpistemicState
   \/ BuildDecisionGuidance
   \/ AssessVectors
   \/ AskStaleness
   \/ ClassifyConfidence
   \/ CategorizeFindings
   \/ CheckFileChanged

SpecEngine == Init /\ [][NextEngine]_vars

(***************************************************************************)
(* Properties                                                              *)
(***************************************************************************)

\* C1: in the synthesized state ReadyToProceed is true exactly when the
\* engagement gate passes (engagement >= 0.60) and know >= 0.50 and
\* uncertainty <= 0.50.
C1_ReadyIffGateKnowUncertainty ==
   IsSome(epistemic) =>
      LET e == Val(epistemic)
      IN  e.ReadyToProceed <=>
             (e.Engagement >= Pct(60) /\ e.Know >= Pct(50) /\ e.Uncertainty <= Pct(50))

\* C2: the guidance's reason and prerequisites are selected by the recommended
\* action alone: stop gives the low-engagement reason, reset the dead-end reason
\* (with the dead-end count as prerequisite when there are dead ends), verify the
\* stale-count reason and the run-verification prerequisite, investigate the
\* uncertainty reason, and only proceed gives the affirmation.
C2_GuidanceKeyedByAction ==
   IsSome(guidance) =>
      LET g == Val(guidance)
      IN  /\ g.Action = "stop" => g.Reason = ReasonStop
          /\ g.Action = "reset" =>
                /\ g.Reason = ReasonReset
                /\ Len(deadEnds) > 0 =>
                      g.Prerequisites = << PrereqReview(Len(deadEnds)) >>
          /\ g.Action = "verify" =>
                /\ g.Reason = ReasonVerify(StaleCount(findings, now))
                /\ g.Prerequisites = << PrereqVerify >>
          /\ g.Action = "investigate" => g.Reason = ReasonInvestigate
          /\ g.Reason = ReasonReady => g.Action = "proceed"

\* the vector's own needsInvestigation condition
C3_Needs(v) == v.Know < Pct(50) \/ v.Uncertainty > Pct(50)

\* C3: EpistemicVectors.RecommendedAction follows the strict priority order
\* stop (engagement < 0.60), reset (coherence < 0.50), clarify (density > 0.90),
\* investigate (know < 0.50 or uncertainty > 0.50), proceed, for every vector.
C3_VectorActionPriority ==
   IsSome(assessment) =>
      LET v == Val(vectors)
          a == Val(assessment).RecommendedAction
      IN  /\ v.Engagement < Pct(60) => a = "stop"
          /\ (v.Engagement >= Pct(60) /\ v.Coherence < Pct(50)) => a = "reset"
          /\ (v.Engagement >= Pct(60) /\ v.Coherence >= Pct(50) /\ v.Density > Pct(90))
                => a = "clarify"
          /\ (/\ v.Engagement >= Pct(60) /\ v.Coherence >= Pct(50)
              /\ v.Density <= Pct(90) /\ C3_Needs(v))
                => a = "investigate"
          /\ (/\ v.Engagement >= Pct(60) /\ v.Coherence >= Pct(50)
              /\ v.Density <= Pct(90) /\ ~C3_Needs(v))
                => a = "proceed"

\* A vector failing the gate whose coherence is low, density high and knowledge
\* low has been assessed: the action is stop.
C3_Witness ==
   /\ IsSome(assessment)
   /\ Val(vectors).Engagement < Pct(60)
   /\ Val(vectors).Coherence < Pct(50)
   /\ Val(vectors).Density > Pct(90)
   /\ C3_Needs(Val(vectors))
   /\ Val(assessment).RecommendedAction = "stop"

\* C4: the synthesized state's RecommendedAction follows the chain stop
\* (engagement < 0.60), reset (coherence < 0.50), verify (clarity < 0.40),
\* investigate (know < 0.50 or uncertainty > 0.50), proceed, for every
\* combination of derived values.
C4_SessionActionChain ==
   IsSome(epistemic) =>
      LET e == Val(epistemic)
          a == e.RecommendedAction
          needs == e.Know < Pct(50) \/ e.Uncertainty > Pct(50)
      IN  /\ e.Engagement < Pct(60) => a = "stop"
          /\ (e.Engagement >= Pct(60) /\ e.Coherence < Pct(50)) => a = "reset"
          /\ (e.Engagement >= Pct(60) /\ e.Coherence >= Pct(50) /\ e.Clarity < Pct(40))
                => a = "verify"
          /\ (/\ e.Engagement >= Pct(60) /\ e.Coherence >= Pct(50)
              /\ e.Clarity >= Pct(40) /\ needs)
                => a = "investigate"
          /\ (/\ e.Engagement >= Pct(60) /\ e.Coherence >= Pct(50)
              /\ e.Clarity >= Pct(40) /\ ~needs)
                => a = "proceed"

\* A state with low clarity and high uncertainty at once: verify wins.
C4_Witness ==
   /\ IsSome(epistemic)
   /\ Val(epistemic).Clarity < Pct(40)
   /\ Val(epistemic).Uncertainty > Pct(50)
   /\ Val(epistemic).Coherence >= Pct(50)
   /\ Val(epistemic).RecommendedAction = "verify"

\* C5: a finding's confidence is always in (0, 1], also for a base timestamp in
\* the future of the clock, and the tier is the tier of that clamped value.
C5_ConfidenceInUnitInterval ==
   (IsSome(staleness) /\ IsSome(Val(subject).finding)) =>
      LET c == Val(staleness).confidence
          clamped == IF c > Scale THEN Scale ELSE c
      IN  /\ 0 < c
          /\ c <= Scale
          /\ Val(staleness).status = StalenessTier(clamped, Val(subject).fileChanged)

\* the timestamp a finding's decay starts from
C6_Base(f) ==
   IF IsSome(f.LastVerifiedTimestamp) THEN Val(f.LastVerifiedTimestamp)
                                      ELSE f.CreatedTimestamp

\* C6: GetStalenessStatus(fileChanged) is the tiering of c' = c (file unchanged)
\* or c' = 0.5 * c (file changed), c the confidence decayed from the last-verified
\* timestamp if present, else the creation timestamp: c' >= 0.70 fresh,
\* 0.40 <= c' < 0.70 aging, c' < 0.40 stale.  (d below is 2 * c'.)
C6_StalenessTiering ==
   IsSome(staleness) =>
      LET x == Val(subject)
          c == Val(staleness).confidence
          d == IF x.fileChanged THEN c ELSE 2 * c
          tier == Val(staleness).status
      IN  /\ IsSome(x.finding) =>
                c = ExpDecay(now - C6_Base(Val(x.finding)),
                             DecayHalfLifeDays * HoursPerDay)
          /\ tier \in { StatusFresh, StatusAging, StatusStale }
          /\ tier = StatusFresh <=> d >= 2 * Pct(70)
          /\ tier = StatusAging <=> (2 * Pct(40) <= d /\ d < 2 * Pct(70))
          /\ tier = StatusStale <=> d < 2 * Pct(40)

\* A verified finding whose file changed, 108 hours after the verification:
\* confidence 0.8003, penalized 0.4001, tier aging.
C6_Witness ==
   /\ IsSome(staleness)
   /\ IsSome(Val(subject).finding)
   /\ IsSome(Val(Val(subject).finding).LastVerifiedTimestamp)
   /\ Val(subject).fileChanged
   /\ Val(staleness).confidence >= Pct(80)
   /\ Val(staleness).confidence < Pct(81)
   /\ Val(staleness).status = StatusAging

\* C7: the synthesized engagement is always within [0.1, 1], also for a session
\* start in the future of the clock.
C7_EngagementInRange ==
   IsSome(epistemic) =>
      /\ Val(epistemic).Engagement >= Pct(10)
      /\ Val(epistemic).Engagement <= Scale

\* C8: OverallConfidence and the synthesized Confidence are always within
\* [0, 1], for every input.
C8_ConfidenceInUnitInterval ==
   /\ IsSome(assessment) =>
         /\ Val(assessment).OverallConfidence >= 0
         /\ Val(assessment).OverallConfidence <= Scale
   /\ IsSome(epistemic) =>
         /\ Val(epistemic).Confidence >= 0
         /\ Val(epistemic).Confidence <= Scale

\* A session whose start lies in the future (engagement above 1) with the
\* weighted sum above 1: the confidence returned is 1.
C8_Witness ==
   /\ IsSome(epistemic)
   /\ Val(sessionStart) > now
   /\ Val(epistemic).Engagement > Scale
   /\ Val(epistemic).Know * 30 + Val(epistemic).Clarity * 20
         + Val(epistemic).Coherence * 20 + Val(epistemic).Completion * 15
         + Val(epistemic).Engagement * 15 - Val(epistemic).Uncertainty * 15
      > 100 * Scale
   /\ Val(epistemic).Confidence = Scale

\* a and b differ by less than one unit of the sixth decimal times n
C9_Near(a, b, n) == a - b < n /\ b - a < n

\* C9: for list sizes F, O, R, D and fresh count K, know = min(1, 0.5 + 0.1F +
\* 0.15R), uncertainty = clamp01(0.5 + 0.1O - 0.1R), clarity = K/F, coherence =
\* 1 - D/(F+O+R+D), completion = R/(O+R) when the denominators are non-zero.
\* The ratios are stated multiplied out, to six decimals.
C9_SynthesizedValues ==
   IsSome(epistemic) =>
      LET e == Val(epistemic)
          F == Len(findings)
          O == Len(openUnknowns)
          R == Len(resolvedUnknowns)
          D == Len(deadEnds)
          K == Cardinality({ i \in 1..F :
                  GetStalenessStatus(findings[i], now, FileChangedOf(findings[i]))
                     = StatusFresh })
          k == 50 + 10 * F + 15 * R
          u == 50 + 10 * O - 10 * R
      IN  /\ e.Know * 100 = Scale * (IF k < 100 THEN k ELSE 100)
          /\ C9_Near(e.Uncertainty * 100,
                     Scale * (IF u < 0 THEN 0 ELSE IF u > 100 THEN 100 ELSE u), 200)
          /\ F > 0 => C9_Near(e.Clarity * F, K * Scale, F)
          /\ F + O + R + D > 0 =>
                C9_Near(e.Coherence * (F + O + R + D), (F + O + R) * Scale,
                        F + O + R + D)
          /\ O + R > 0 => C9_Near(e.Completion * (O + R), R * Scale, O + R)

\* The scenario: three findings of which two are fresh, two open and three
\* resolved unknowns, one dead end, a session one hour old.
C9_Witness ==
   /\ IsSome(epistemic)
   /\ Len(findings) = 3
   /\ FreshCount(findings, now) = 2
   /\ Len(openUnknowns) = 2
   /\ Len(resolvedUnknowns) = 3
   /\ Len(deadEnds) = 1
   /\ now - Val(sessionStart) = 1
   /\ Val(epistemic).Know = Scale
   /\ Val(epistemic).Uncertainty = Pct(40)
   /\ C9_Near(Val(epistemic).Coherence * 9, 8 * Scale, 9)
   /\ Val(epistemic).Completion = Pct(60)
   /\ C9_Near(Val(epistemic).Engagement, 707107, 2)
   /\ Val(epistemic).RecommendedAction = "proceed"

\* C10: a zero denominator takes the fixed fallback, each ratio on its own: no
\* findings gives clarity 0.5, no breadcrumbs coherence 1.0, no unknowns
\* completion 0.5; the empty history gives know 0.5, uncertainty 0.5,
\* clarity 0.5, coherence 1.0, completion 0.5.
C10_EmptyDenominatorFallbacks ==
   IsSome(epistemic) =>
      LET e == Val(epistemic)
          F == Len(findings)
          O == Len(openUnknowns)
          R == Len(resolvedUnknowns)
          D == Len(deadEnds)
      IN  /\ F = 0 => e.Clarity = Pct(50)
          /\ F + O + R + D = 0 => e.Coherence = Scale
          /\ O + R = 0 => e.Completion = Pct(50)
          /\ F + O + R + D = 0 =>
                /\ e.Know = Pct(50)
                /\ e.Uncertainty = Pct(50)
                /\ e.Clarity = Pct(50)
                /\ e.Completion = Pct(50)

\* The empty breadcrumb history has been synthesized.
C10_Witness ==
   /\ IsSome(epistemic)
   /\ Len(findings) + Len(openUnknowns) + Len(resolvedUnknowns) + Len(deadEnds) = 0
   /\ Val(epistemic).Clarity = Pct(50)
   /\ Val(epistemic).Coherence = Scale
   /\ Val(epistemic).Completion = Pct(50)

\* The file-change status and tier a listed finding should get: changed only
\* when subject, stored hash and current hash are all present and the hashes
\* differ.
C15_ExpectedChanged(f) ==
   /\ IsSome(f.Subject) /\ IsSome(f.SubjectGitHash)
   /\ Val(f.Subject) # "" /\ Val(f.SubjectGitHash) # ""
   /\ Val(f.Subject) \in DOMAIN gitHash
   /\ gitHash[Val(f.Subject)] # ""
   /\ gitHash[Val(f.Subject)] # Val(f.SubjectGitHash)

C15_ExpectedTier(f) ==
   LET c == CalculateConfidence(f, now)
       p == IF C15_ExpectedChanged(f) THEN c \div 2 ELSE c
   IN  IF p >= Pct(70) THEN StatusFresh
       ELSE IF p >= Pct(40) THEN StatusAging ELSE StatusStale

\* the number of findings among the first i of the list with (without) the stale tier
C15_StaleUpTo(i) == Cardinality({ j \in 1..i : C15_ExpectedTier(findings[j]) = StatusStale })

C15_KnownUpTo(i) == i - C15_StaleUpTo(i)

\* C15: checkFileChanged returns true only when the stored hash and the
\* freshly computed hash are both non-empty and differ; when the hash tool
\* fails or the path is untracked (computed hash empty), or the stored hash or
\* the path is empty, it returns false, a plain boolean with no error, and a
\* listed finding in that case is tiered without the file-change penalty.
C15_OracleFailureIsUnchanged ==
   /\ (IsSome(oracle) /\ IsSome(Val(oracle).changed)) =>
         LET o       == Val(oracle)
             current == IF o.filePath \in DOMAIN gitHash THEN gitHash[o.filePath] ELSE ""
             changed == Val(o.changed)
         IN  /\ changed \in BOOLEAN
             /\ changed => (o.storedHash # "" /\ current # "" /\ current # o.storedHash)
             /\ (current = "" \/ o.storedHash = "" \/ o.filePath = "") => ~changed
   /\ IsSome(sessionContext) =>
         \A i \in DOMAIN findings :
            LET f        == findings[i]
                c        == CalculateConfidence(f, now)
                verify   == Val(sessionContext).RequiresVerification
                known    == Val(sessionContext).Knowledge
                untiered == IsSome(f.Subject) /\ IsSome(f.SubjectGitHash)
                               /\ gitHash[Val(f.Subject)] = ""
            IN  untiered =>
                   IF c < Pct(40)
                      THEN /\ C15_StaleUpTo(i) \in DOMAIN verify
                           /\ ~verify[C15_StaleUpTo(i)].FileChanged
                      ELSE /\ C15_KnownUpTo(i) \in DOMAIN known
                           /\ known[C15_KnownUpTo(i)].Status =
                                 (IF c >= Pct(70) THEN "fresh" ELSE "aging")

\* an untracked path with a stored hash was asked about and reported unchanged
C15_Witness ==
   /\ IsSome(oracle)
   /\ Val(oracle).filePath = "b.go"
   /\ Val(oracle).storedHash = "h1"
   /\ Val(oracle).changed = Some(FALSE)

\* C16: buildSessionContext partitions the listed findings by tier: every
\* finding has exactly one entry, in requires_verification or in knowledge
\* (the entries keep the list's order); it is in requires_verification exactly
\* when its tier, with its own file-change penalty, is stale; a knowledge
\* entry's status label is 'fresh' or 'aging' and equals the finding's tier.
C16_PartitionByTier ==
   IsSome(sessionContext) =>
      LET verify == Val(sessionContext).RequiresVerification
          known  == Val(sessionContext).Knowledge
      IN  /\ Len(verify) = C15_StaleUpTo(Len(findings))
          /\ Len(known) = C15_KnownUpTo(Len(findings))
          /\ \A i \in DOMAIN findings :
                LET f == findings[i]
                IN  IF C15_ExpectedTier(f) = StatusStale
                       THEN LET e == verify[C15_StaleUpTo(i)]
                            IN  /\ e.Confidence = CalculateConfidence(f, now)
                                /\ e.FileChanged = C15_ExpectedChanged(f)
                                /\ e.Scope = (IF IsSome(f.Subject) THEN Val(f.Subject) ELSE "")
                       ELSE LET e == known[C15_KnownUpTo(i)]
                            IN  /\ e.Confidence = CalculateConfidence(f, now)
                                /\ e.Status \in { "fresh", "aging" }
                                /\ e.Status = C15_ExpectedTier(f)
                                /\ e.Scope = (IF IsSome(f.Subject) THEN Val(f.Subject) ELSE "")

\* three findings were categorized: one stale, one fresh, and one aging only
\* because its file changed
C16_Witness ==
   /\ IsSome(sessionContext)
   /\ Len(findings) = 3
   /\ Len(Val(sessionContext).RequiresVerification) = 1
   /\ \E i, j \in DOMAIN Val(sessionContext).Knowledge :
         /\ Val(sessionContext).Knowledge[i].Status = "fresh"
         /\ Val(sessionContext).Knowledge[j].Status = "aging"
         /\ Val(sessionContext).Knowledge[j].Scope = "a.go"

(***************************************************************************)
(* Text: a string is the sequence of its characters                        *)
(***************************************************************************)

LowerLetters == << "a", "b", "c", "d", "e", "f", "g", "h", "i", "j", "k", "l", "m",
                   "n", "o", "p", "q", "r", "s", "t", "u", "v", "w", "x", "y", "z" >>

UpperLetters == << "A", "B", "C", "D", "E", "F", "G", "H", "I", "J", "K", "L", "M",
                   "N", "O", "P", "Q", "R", "S", "T", "U", "V", "W", "X", "Y", "Z" >>

Digits == { "0", "1", "2", "3", "4", "5", "6", "7", "8", "9" }

Range(s) == { s[i] : i \in DOMAIN s }

\* unicode.ToLower on an ASCII character
ToLowerRune(r) ==
   IF r \in Range(UpperLetters)
      THEN LowerLetters[CHOOSE i \in DOMAIN UpperLetters : UpperLetters[i] = r]
      ELSE r

\* strings.ToLower
ToLower(s) == [ i \in DOMAIN s |-> ToLowerRune(s[i]) ]

(***************************************************************************)
(* Breadcrumb store: tables project_findings and project_unknowns          *)
(*                                                                         *)
(* A table is a function from the ids stored (the primary key) to rows.    *)
(* An id is the number of the uuid: the n-th uuid.New() of a table is n.   *)
(* A row keeps the columns the operations read or write after the insert,  *)
(* and the JSON blob (finding_data, unknown_data) as the record marshalled.*)
(***************************************************************************)

ErrNoRows == "sql: no rows in result set"

\* uuid.New(): an id no row has
NewID(table) == Cardinality(DOMAIN table) + 1

Insert(table, id, row) ==
   [ i \in DOMAIN table \cup { id } |-> IF i = id THEN row ELSE table[i] ]

\* models.NewFinding
NewFinding(id, projectID, finding, t) ==
   [ ID                    |-> id,
     ProjectID             |-> projectID,
     Finding               |-> finding,
     CreatedTimestamp      |-> t,
     LastVerifiedTimestamp |-> None,
     Subject               |-> None,
     SubjectGitHash        |-> None ]

\* CreateFinding: the columns from the struct, finding_data its JSON
CreateFinding(table, finding) ==
   Insert(table, finding.ID,
          [ ID                    |-> finding.ID,
            ProjectID             |-> finding.ProjectID,
            Finding               |-> finding.Finding,
            CreatedTimestamp      |-> finding.CreatedTimestamp,
            LastVerifiedTimestamp |-> finding.LastVerifiedTimestamp,
            Subject               |-> finding.Subject,
            SubjectGitHash        |-> finding.SubjectGitHash,
            FindingData           |-> finding ])

\* GetFinding: the row's finding_data unmarshalled, nil when there is no row
GetFinding(table, findingID) ==
   IF findingID \in DOMAIN table THEN Some(table[findingID].FindingData) ELSE None

\* the row's columns scanned into a Finding, as the list queries do
ScanFinding(row) ==
   [ ID                    |-> row.ID,
     ProjectID             |-> row.ProjectID,
     Finding               |-> row.Finding,
     CreatedTimestamp      |-> row.CreatedTimestamp,
     LastVerifiedTimestamp |-> row.LastVerifiedTimestamp,
     Subject               |-> row.Subject,
     SubjectGitHash        |-> row.SubjectGitHash ]

\* VerifyFinding that stamps the verification with the zero time
VerifyFindingZeroTime(table, findingID, newGitHash, updatedText, t) ==
   LET verified(row) ==
          [ row EXCEPT
               !.LastVerifiedTimestamp = Some(0),
               !.SubjectGitHash = IF IsSome(newGitHash) THEN newGitHash ELSE @,
               !.Finding = IF IsSome(updatedText) THEN Val(updatedText) ELSE @ ]
       rows == Cardinality({ i \in DOMAIN table : i = findingID })
   IN  [ table |-> [ i \in DOMAIN table |->
                        IF i = findingID THEN verified(table[i]) ELSE table[i] ],
         err   |-> IF rows = 0 THEN Some(ErrNoRows) ELSE None ]

\* VerifyFinding that updates every row (the WHERE clause lost)
VerifyFindingAllRows(table, findingID, newGitHash, updatedText, t) ==
   LET verified(row) ==
          [ row EXCEPT
               !.LastVerifiedTimestamp = Some(t),
               !.SubjectGitHash = IF IsSome(newGitHash) THEN newGitHash ELSE @,
               !.Finding = IF IsSome(updatedText) THEN Val(updatedText) ELSE @ ]
       rows == Cardinality(DOMAIN table)
   IN  [ table |-> [ i \in DOMAIN table |-> verified(table[i]) ],
         err   |-> IF rows = 0 THEN Some(ErrNoRows) ELSE None ]

\* VerifyFinding: UPDATE project_findings SET last_verified_timestamp = now
\* [, subject_git_hash = ?] [, finding = ?] WHERE id = ?; ErrNoRows when no
\* row was affected.  The finding_data column is not in the SET list.
VerifyFinding(table, findingID, newGitHash, updatedText, t) ==
   LET verified(row) ==
          [ row EXCEPT
               !.LastVerifiedTimestamp = Some(t),
               !.SubjectGitHash = IF IsSome(newGitHash) THEN newGitHash ELSE @,
               !.Finding = IF IsSome(updatedText) THEN Val(updatedText) ELSE @ ]
       rows == Cardinality({ i \in DOMAIN table : i = findingID })
   IN  [ table |-> [ i \in DOMAIN table |->
                        IF i = findingID THEN verified(table[i]) ELSE table[i] ],
         err   |-> IF rows = 0 THEN Some(ErrNoRows) ELSE None ]

\* LIKE of SQLite: % is any run of characters, _ any one character, ASCII
\* letters compare without case
RECURSIVE Like(_, _)
Like(pattern, text) ==
   IF pattern = << >> THEN text = << >>
   ELSE IF Head(pattern) = "%"
      THEN Like(Tail(pattern), text) \/ (text # << >> /\ Like(pattern, Tail(text)))
      ELSE /\ text # << >>
           /\ (Head(pattern) = "_" \/ ToLowerRune(Head(pattern)) = ToLowerRune(Head(text)))
           /\ Like(Tail(pattern), Tail(text))

\* LIMIT 10 of FindFindingByText
FindLimit == 10

\* ORDER BY created_timestamp DESC over a set of ids; SQL leaves the order of
\* rows with equal timestamps open, here the greater id comes first
RECURSIVE OrderNewestFirst(_, _)
OrderNewestFirst(table, ids) ==
   IF ids = { } THEN << >>
   ELSE LET first == CHOOSE i \in ids :
                        \A j \in ids :
                           \/ table[i].CreatedTimestamp > table[j].CreatedTimestamp
                           \/ /\ table[i].CreatedTimestamp = table[j].CreatedTimestamp
                              /\ i >= j
        IN  << first >> \o OrderNewestFirst(table, ids \ { first })

\* FindFindingByText: finding LIKE '%text%' [AND project_id = ?], newest
\* first, at most 10 rows
FindFindingByText(table, projectID, searchText) ==
   LET ids   == { i \in DOMAIN table :
                     /\ Like(<< "%" >> \o searchText \o << "%" >>, table[i].Finding)
                     /\ (projectID # "" => table[i].ProjectID = projectID) }
       order == OrderNewestFirst(table, ids)
   IN  [ k \in 1..(IF Len(order) < FindLimit THEN Len(order) ELSE FindLimit) |->
            ScanFinding(table[order[k]]) ]

\* models.NewUnknown
NewUnknown(id, projectID, unknown, t) ==
   [ ID                |-> id,
     ProjectID         |-> projectID,
     Unknown           |-> unknown,
     IsResolved        |-> FALSE,
     ResolvedBy        |-> None,
     CreatedTimestamp  |-> t,
     ResolvedTimestamp |-> None ]

\* CreateUnknown: resolved_by and resolved_timestamp are not in the INSERT
CreateUnknown(table, unknown) ==
   Insert(table, unknown.ID,
          [ ID                |-> unknown.ID,
            ProjectID         |-> unknown.ProjectID,
            Unknown           |-> unknown.Unknown,
            IsResolved        |-> unknown.IsResolved,
            ResolvedBy        |-> None,
            CreatedTimestamp  |-> unknown.CreatedTimestamp,
            ResolvedTimestamp |-> None,
            UnknownData       |-> unknown ])

\* GetUnknown: the row's unknown_data unmarshalled, nil when there is no row
GetUnknown(table, unknownID) ==
   IF unknownID \in DOMAIN table THEN Some(table[unknownID].UnknownData) ELSE None

\* ResolveUnknown that inserts a resolved row when the id is unknown
ResolveUnknownUpsert(table, unknownID, resolvedBy, t) ==
   LET unknown  == IF IsSome(GetUnknown(table, unknownID))
                      THEN Val(GetUnknown(table, unknownID))
                      ELSE NewUnknown(unknownID, "", << >>, t)
       resolved == [ unknown EXCEPT !.IsResolved = TRUE,
                                    !.ResolvedBy = Some(resolvedBy),
                                    !.ResolvedTimestamp = Some(t) ]
       row      == CreateUnknown(<< >>, unknown)[unknownID]
   IN  [ table |-> Insert(table, unknownID,
                          [ (IF unknownID \in DOMAIN table THEN table[unknownID] ELSE row)
                            EXCEPT !.IsResolved = TRUE,
                                   !.ResolvedBy = Some(resolvedBy),
                                   !.ResolvedTimestamp = Some(t),
                                   !.UnknownData = resolved ]),
         err   |-> None ]

\* ResolveUnknown: GetUnknown, ErrNoRows when there is none; else the flag,
\* resolver and time are set on the struct and written with its JSON
ResolveUnknown(table, unknownID, resolvedBy, t) ==
   LET got == GetUnknown(table, unknownID)
   IN  IF got = None
          THEN [ table |-> table, err |-> Some(ErrNoRows) ]
          ELSE LET resolved == [ Val(got) EXCEPT !.IsResolved = TRUE,
                                                 !.ResolvedBy = Some(resolvedBy),
                                                 !.ResolvedTimestamp = Some(t) ]
               IN  [ table |-> [ i \in DOMAIN table |->
                                    IF i = unknownID
                                       THEN [ table[i] EXCEPT
                                                 !.IsResolved = TRUE,
                                                 !.ResolvedBy = Some(resolvedBy),
                                                 !.ResolvedTimestamp = Some(t),
                                                 !.UnknownData = resolved ]
                                       ELSE table[i] ],
                     err   |-> None ]

(***************************************************************************)
(* Commands over the store                                                 *)
(***************************************************************************)

ErrNoActiveSession == "no active session. Run 'memory start \"objective\"' first"

ErrFindingNotFound == "finding not found"

ErrNoFindingsMatching == "no findings found matching"

ErrProvideSearchText == "provide search text or --id flag"

\* learnedCmd: a new finding of the active session's project, with the scope
\* and its git hash when given, verified at its creation time
learned(table, active, findingText, scope, t) ==
   IF active = None
      THEN [ table |-> table, err |-> Some(ErrNoActiveSession) ]
      ELSE LET hash    == getFileGitHash(scope)
               created == NewFinding(NewID(table), Val(active), findingText, t)
               finding == [ created EXCEPT
                               !.Subject = IF scope # "" THEN Some(scope) ELSE @,
                               !.SubjectGitHash =
                                  IF scope # "" /\ hash # "" THEN Some(hash) ELSE @,
                               !.LastVerifiedTimestamp = Some(created.CreatedTimestamp) ]
           IN  [ table |-> CreateFinding(table, finding), err |-> None ]

\* uncertainCmd: a new unresolved unknown of the active session's project
uncertain(table, active, unknownText, t) ==
   IF active = None
      THEN [ table |-> table, err |-> Some(ErrNoActiveSession) ]
      ELSE [ table |-> CreateUnknown(table, NewUnknown(NewID(table), Val(active),
                                                       unknownText, t)),
             err   |-> None ]

\* one entry of the "matches" list of verifyCmd
Match(f, t) ==
   LET fileChanged == FileChangedOf(f)
   IN  [ id           |-> f.ID,
         finding      |-> f.Finding,
         status       |-> GetStalenessStatus(f, t, fileChanged),
         days_old     |-> DaysSinceVerified(f, t),
         file_changed |-> fileChanged ]

\* the end of verifyCmd, once the target finding is known; found is the
\* number of rows the text search returned, None without a search
verifyTarget(table, targetFinding, updateText, found, t) ==
   LET hash       == IF IsSome(targetFinding.Subject)
                        THEN getFileGitHash(Val(targetFinding.Subject))
                        ELSE ""
       newGitHash == IF hash # "" THEN Some(hash) ELSE None
       newText    == IF updateText # << >> THEN Some(updateText) ELSE None
       done       == VerifyFinding(table, targetFinding.ID, newGitHash, newText, t)
   IN  [ table |-> done.table,
         err   |-> done.err,
         found |-> found,
         out   |-> IF done.err = None
                      THEN Some([ status   |-> "verified",
                                  id       |-> targetFinding.ID,
                                  finding  |-> IF IsSome(newText) THEN Val(newText)
                                                                   ELSE targetFinding.Finding,
                                  updated  |-> IsSome(newText),
                                  git_hash |-> newGitHash ])
                      ELSE None ]

\* verifyCmd that takes the newest of several matches
verifyCmdFirstMatch(table, active, findingID, args, updateText, t) ==
   LET projectID == IF IsSome(active) THEN Val(active) ELSE ""
   IN  IF IsSome(findingID)
          THEN LET got == GetFinding(table, Val(findingID))
               IN  IF got = None
                      THEN [ table |-> table, err |-> Some(ErrFindingNotFound),
                             found |-> None, out |-> None ]
                      ELSE verifyTarget(table, Val(got), updateText, None, t)
       ELSE IF IsSome(args)
          THEN LET found == FindFindingByText(table, projectID, Val(args))
               IN  IF Len(found) = 0
                      THEN [ table |-> table, err |-> Some(ErrNoFindingsMatching),
                             found |-> Some(0), out |-> None ]
                      ELSE verifyTarget(table, found[1], updateText, Some(Len(found)), t)
       ELSE [ table |-> table, err |-> Some(ErrProvideSearchText),
              found |-> None, out |-> None ]

\* verifyCmd: the target is looked up by --id, or searched by text (no match
\* is an error, several matches are listed and nothing is verified), then
\* verified with the current hash of its subject and the --update text
verifyCmd(table, active, findingID, args, updateText, t) ==
   LET projectID == IF IsSome(active) THEN Val(active) ELSE ""
   IN  IF IsSome(findingID)
          THEN LET got == GetFinding(table, Val(findingID))
               IN  IF got = None
                      THEN [ table |-> table, err |-> Some(ErrFindingNotFound),
                             found |-> None, out |-> None ]
                      ELSE verifyTarget(table, Val(got), updateText, None, t)
       ELSE IF IsSome(args)
          THEN LET found == FindFindingByText(table, projectID, Val(args))
               IN  IF Len(found) = 0
                      THEN [ table |-> table, err |-> Some(ErrNoFindingsMatching),
                             found |-> Some(0), out |-> None ]
                   ELSE IF Len(found) > 1
                      THEN [ table |-> table,
                             err   |-> None,
                             found |-> Some(Len(found)),
                             out   |-> Some([ status  |-> "multiple_matches",
                                              matches |-> [ k \in DOMAIN found |->
                                                              Match(found[k], t) ] ]) ]
                      ELSE verifyTarget(table, found[1], updateText, Some(Len(found)), t)
       ELSE [ table |-> table, err |-> Some(ErrProvideSearchText),
              found |-> None, out |-> None ]

(***************************************************************************)
(* Specifications of the store: findings under learned and verify,         *)
(* unknowns under uncertain and resolve                                    *)
(***************************************************************************)

\* rows kept per table
MaxStoredFindings == 2

MaxStoredUnknowns == 1

\* clock steps taken
MaxTicks == 1

\* the clock moves ten days at a time: a fresh finding is aging after one step
\* and stale after two
TickHours == 10 * HoursPerDay

FindingTexts == { << "J", "W", "T" >> }

UnknownTexts == { << "t", "t", "l" >> }

\* --update: not given, or a new text
UpdateTexts == { << >>, << "d", "b" >> }

\* search texts: the text as logged in lower case, the updated text by a
\* wildcard, and a text no finding has
SearchTexts == { << "j", "w", "t" >>, << "d", "_" >>, << "x" >> }

\* --scope: not given, or a tracked file
ScopeSamples == { "", "a.go" }

\* the active session's project, None when no session is active
ActiveSamples == { None, Some("p1") }

ResolverSamples == { "r1", "r2" }

\* a finding logged in an earlier session of another project, fifteen days ago
EarlierFindings ==
   CreateFinding(<< >>,
      [ NewFinding(1, "p0", << "J", "W", "T" >>, Epoch - 15 * HoursPerDay) EXCEPT
           !.LastVerifiedTimestamp = Some(Epoch - 15 * HoursPerDay) ])

\* an unknown logged in that session, still open
EarlierUnknowns ==
   CreateUnknown(<< >>, NewUnknown(1, "p0", << "t", "t", "l" >>, Epoch - 15 * HoursPerDay))

EngineIdle ==
   /\ NoLists
   /\ epistemic = None
   /\ guidance = None
   /\ vectors = None
   /\ assessment = None
   /\ subject = None
   /\ staleness = None
   /\ sessionContext = None
   /\ oracle = None

InitFindings ==
   /\ now = Epoch
   /\ gitHash = GitNow
   /\ projectFindings = EarlierFindings
   /\ projectUnknowns = EarlierUnknowns
   /\ result = None
   /\ EngineIdle
   /\ SearchIdle
   /\ AdminIdle

InitUnknowns ==
   /\ now = Epoch
   /\ gitHash = GitNow
   /\ projectFindings = EarlierFindings
   /\ projectUnknowns \in { << >>, EarlierUnknowns }
   /\ result = None
   /\ EngineIdle
   /\ SearchIdle
   /\ AdminIdle

\* time passes
Tick ==
   /\ now < Epoch + MaxTicks * TickHours
   /\ now' = now + TickHours
   /\ UNCHANGED << gitHash, findings, openUnknowns, resolvedUnknowns, deadEnds,
                   sessionStart, epistemic, guidance, vectors, assessment, subject,
                   staleness, sessionContext, oracle, storeVars, searchVars, adminVars >>

\* memory learned <text> [--scope <file>]
Learned ==
   /\ Cardinality(DOMAIN projectFindings) < MaxStoredFindings
   /\ \E active \in ActiveSamples, text \in FindingTexts, scope \in ScopeSamples :
         LET done == learned(projectFindings, active, text, scope, now)
         IN  /\ projectFindings' = done.table
             /\ result' = Some([ op |-> "learned", err |-> done.err ])
   /\ UNCHANGED << now, gitHash, findings, openUnknowns, resolvedUnknowns, deadEnds,
                   sessionStart, epistemic, guidance, vectors, assessment, subject,
                   staleness, sessionContext, oracle, projectUnknowns, searchVars, adminVars >>

\* memory uncertain <text>
Uncertain ==
   /\ Cardinality(DOMAIN projectUnknowns) < MaxStoredUnknowns
   /\ \E active \in ActiveSamples, text \in UnknownTexts :
         LET done == uncertain(projectUnknowns, active, text, now)
         IN  /\ projectUnknowns' = done.table
             /\ result' = Some([ op |-> "uncertain", err |-> done.err ])
   /\ UNCHANGED << now, gitHash, findings, openUnknowns, resolvedUnknowns, deadEnds,
                   sessionStart, epistemic, guidance, vectors, assessment, subject,
                   staleness, sessionContext, oracle, projectFindings, searchVars, adminVars >>

\* repo.ResolveUnknown(unknownID, resolvedBy), for ids stored or not
CallResolveUnknown ==
   /\ \E id \in 1..(MaxStoredUnknowns + 1), resolvedBy \in ResolverSamples :
         LET done == ResolveUnknown(projectUnknowns, id, resolvedBy, now)
         IN  /\ projectUnknowns' = done.table
             /\ result' = Some([ op |-> "ResolveUnknown", id |-> id, err |-> done.err ])
   /\ UNCHANGED << now, gitHash, findings, openUnknowns, resolvedUnknowns, deadEnds,
                   sessionStart, epistemic, guidance, vectors, assessment, subject,
                   staleness, sessionContext, oracle, projectFindings, searchVars, adminVars >>

\* repo.VerifyFinding(findingID, newGitHash, updatedText), for ids stored or not
CallVerifyFinding ==
   /\ \E id \in 1..(MaxStoredFindings + 1),
         newGitHash \in { None, Some("h1") },
         updatedText \in { None, Some(<< "d", "b" >>) } :
         LET done == VerifyFinding(projectFindings, id, newGitHash, updatedText, now)
         IN  /\ projectFindings' = done.table
             /\ result' = Some([ op          |-> "VerifyFinding",
                                 id          |-> id,
                                 newGitHash  |-> newGitHash,
                                 updatedText |-> updatedText,
                                 err         |-> done.err ])
   /\ UNCHANGED << now, gitHash, findings, openUnknowns, resolvedUnknowns, deadEnds,
                   sessionStart, epistemic, guidance, vectors, assessment, subject,
                   staleness, sessionContext, oracle, projectUnknowns, searchVars, adminVars >>

\* the flags and argument of memory verify: --id, or a search text with or
\* without an active session, or neither
VerifyInputs ==
   { [ active |-> Some("p1"), findingID |-> Some(i), args |-> None ] :
        i \in 1..(MaxStoredFindings + 1) }
   \cup { [ active |-> a, findingID |-> None, args |-> Some(x) ] :
             a \in ActiveSamples, x \in SearchTexts }
   \cup { [ active |-> Some("p1"), findingID |-> None, args |-> None ] }

\* memory verify [search-text] [--id <id>] [--update <text>]
VerifyCmd ==
   /\ \E in \in VerifyInputs, updateText \in UpdateTexts :
         LET done == verifyCmd(projectFindings, in.active, in.findingID, in.args,
                               updateText, now)
         IN  /\ projectFindings' = done.table
             /\ result' = Some([ op    |-> "verify",
                                 found |-> done.found,
                                 err   |-> done.err,
                                 out   |-> done.out ])
   /\ UNCHANGED << now, gitHash, findings, openUnknowns, resolvedUnknowns, deadEnds,
                   sessionStart, epistemic, guidance, vectors, assessment, subject,
                   staleness, sessionContext, oracle, projectUnknowns, searchVars, adminVars >>

\* the commands on findings
NextFindings ==
   \/ Tick
   \/ Learned
   \/ VerifyCmd

SpecFindings == InitFindings /\ [][NextFindings]_vars

\* the repository's VerifyFinding called with any id, hash and text
NextRepository ==
   \/ Tick
   \/ Learned
   \/ CallVerifyFinding

SpecRepository == InitFindings /\ [][NextRepository]_vars

NextUnknowns ==
   \/ Tick
   \/ Uncertain
   \/ CallResolveUnknown
   \/ CallVerifyFinding

SpecUnknowns == InitUnknowns /\ [][NextUnknowns]_vars

(***************************************************************************)
(* Properties of the store                                                 *)
(***************************************************************************)

\* C11: once an unknown has been resolved it is never mutated again: under
\* any later store operation, another ResolveUnknown on the same id with a
\* different resolver included, its resolved flag stays true and its resolver
\* and resolution timestamp keep the values of the first resolution.
C11_ResolvedIsFinal ==
   [][ \A id \in DOMAIN projectUnknowns :
          projectUnknowns[id].IsResolved =>
             /\ id \in DOMAIN projectUnknowns'
             /\ projectUnknowns'[id].IsResolved
             /\ projectUnknowns'[id].ResolvedBy = projectUnknowns[id].ResolvedBy
             /\ projectUnknowns'[id].ResolvedTimestamp =
                   projectUnknowns[id].ResolvedTimestamp
             /\ projectUnknowns'[id].UnknownData = projectUnknowns[id].UnknownData ]_vars

\* C12: VerifyFinding(id, newHash, newText) on an existing finding changes
\* only that finding, and of it only the last-verified timestamp, the subject
\* hash when newHash is given and the text when newText is given; every other
\* finding keeps its stored fields, so its confidence and tier at the same
\* clock value are the same.
C12_VerifyFindingFrame ==
   [][ ( /\ IsSome(result')
         /\ Val(result').op = "VerifyFinding"
         /\ now' = now
         /\ Val(result').id \in DOMAIN projectFindings )
       => LET r   == Val(result')
              old == projectFindings[r.id]
              new == projectFindings'[r.id]
          IN  /\ r.err = None
              /\ DOMAIN projectFindings' = DOMAIN projectFindings
              /\ \A j \in DOMAIN projectFindings \ { r.id } :
                    /\ projectFindings'[j] = projectFindings[j]
                    /\ CalculateConfidence(projectFindings'[j], now) =
                          CalculateConfidence(projectFindings[j], now)
                    /\ GetStalenessStatus(projectFindings'[j], now,
                                          FileChangedOf(projectFindings'[j])) =
                          GetStalenessStatus(projectFindings[j], now,
                                             FileChangedOf(projectFindings[j]))
              /\ new.ID = old.ID
              /\ new.ProjectID = old.ProjectID
              /\ new.CreatedTimestamp = old.CreatedTimestamp
              /\ new.Subject = old.Subject
              /\ new.FindingData = old.FindingData
              /\ new.LastVerifiedTimestamp = Some(now)
              /\ new.SubjectGitHash =
                    (IF IsSome(r.newGitHash) THEN r.newGitHash ELSE old.SubjectGitHash)
              /\ new.Finding =
                    (IF IsSome(r.updatedText) THEN Val(r.updatedText) ELSE old.Finding) ]_vars

\* one of two findings was verified with a new hash and a new text ten days
\* after both were last verified; the other still has its old verification time
C12_Witness ==
   /\ IsSome(result)
   /\ Val(result).op = "VerifyFinding"
   /\ Val(result).err = None
   /\ Val(result).newGitHash = Some("h1")
   /\ Val(result).updatedText = Some(<< "d", "b" >>)
   /\ Val(result).id \in DOMAIN projectFindings
   /\ projectFindings[Val(result).id].LastVerifiedTimestamp = Some(now)
   /\ projectFindings[Val(result).id].SubjectGitHash = Some("h1")
   /\ projectFindings[Val(result).id].Finding = << "d", "b" >>
   /\ \E j \in DOMAIN projectFindings :
         /\ j # Val(result).id
         /\ projectFindings[j].Finding = << "J", "W", "T" >>
         /\ projectFindings[j].LastVerifiedTimestamp # Some(now)

\* C13: VerifyFinding and ResolveUnknown called with an id that matches no
\* stored record return the not-found error and leave every stored finding
\* and unknown unchanged.
C13_NotFoundChangesNothing ==
   [][ ( /\ IsSome(result')
         /\ now' = now
         /\ \/ /\ Val(result').op = "VerifyFinding"
               /\ Val(result').id \notin DOMAIN projectFindings
            \/ /\ Val(result').op = "ResolveUnknown"
               /\ Val(result').id \notin DOMAIN projectUnknowns )
       => /\ Val(result').err = Some(ErrNoRows)
          /\ projectFindings' = projectFindings
          /\ projectUnknowns' = projectUnknowns ]_vars

\* ResolveUnknown was called with an id no unknown has while a finding and an
\* unknown are stored, and failed
C13_Witness ==
   /\ IsSome(result)
   /\ Val(result).op = "ResolveUnknown"
   /\ Val(result).id \notin DOMAIN projectUnknowns
   /\ Val(result).err = Some(ErrNoRows)
   /\ DOMAIN projectUnknowns # { }
   /\ DOMAIN projectFindings # { }

\* C14: when the search text of the verify command matches more than one
\* finding, nothing is verified: no finding's last-verified timestamp, hash
\* or text changes, and the candidate matches are returned as a result that
\* is not an error; when it matches no finding the command returns an error
\* and changes nothing either.
C14_AmbiguousVerifyChangesNothing ==
   [][ ( /\ IsSome(result')
         /\ Val(result').op = "verify"
         /\ now' = now
         /\ IsSome(Val(result').found) )
       => LET r == Val(result')
          IN  /\ Val(r.found) > 1 =>
                    /\ projectFindings' = projectFindings
                    /\ r.err = None
                    /\ IsSome(r.out)
                    /\ Val(r.out).status = "multiple_matches"
                    /\ Len(Val(r.out).matches) = Val(r.found)
                    /\ \A k \in DOMAIN Val(r.out).matches :
                          Val(r.out).matches[k].id \in DOMAIN projectFindings
              /\ Val(r.found) = 0 =>
                    /\ projectFindings' = projectFindings
                    /\ IsSome(r.err)
                    /\ r.out = None ]_vars

\* a search matched two findings, which were listed, and neither was verified
\* although the clock has moved since they were
C14_Witness ==
   /\ IsSome(result)
   /\ Val(result).op = "verify"
   /\ Val(result).found = Some(2)
   /\ Val(result).err = None
   /\ Val(Val(result).out).status = "multiple_matches"
   /\ Len(Val(Val(result).out).matches) = 2
   /\ \A id \in DOMAIN projectFindings :
         projectFindings[id].LastVerifiedTimestamp # Some(now)

\* C17: after any sequence of learned and verify operations under a clock
\* that never goes back, every stored finding with a last-verified timestamp
\* has lastVerifiedTimestamp >= createdTimestamp.
C17_VerifiedNotBeforeCreated ==
   \A id \in DOMAIN projectFindings :
      /\ IsSome(projectFindings[id].LastVerifiedTimestamp) =>
            Val(projectFindings[id].LastVerifiedTimestamp) >=
               projectFindings[id].CreatedTimestamp
      /\ IsSome(projectFindings[id].FindingData.LastVerifiedTimestamp) =>
            Val(projectFindings[id].FindingData.LastVerifiedTimestamp) >=
               projectFindings[id].FindingData.CreatedTimestamp

\* a finding learned in this session was verified ten days later
C17_Witness ==
   \E id \in DOMAIN projectFindings :
      /\ projectFindings[id].ProjectID = "p1"
      /\ projectFindings[id].FindingData.LastVerifiedTimestamp =
            Some(projectFindings[id].CreatedTimestamp)
      /\ IsSome(projectFindings[id].LastVerifiedTimestamp)
      /\ Val(projectFindings[id].LastVerifiedTimestamp) =
            projectFindings[id].CreatedTimestamp + TickHours

(***************************************************************************)
(* Fuzzy text matcher: internal/search/fuzzy.go                            *)
(*                                                                         *)
(* Texts are ASCII, so that bytes, runes and characters coincide.  String  *)
(* positions count from 0 as in Go; s[[i]] below is the byte at index i.   *)
(***************************************************************************)

At(s, i) == s[i + 1]

\* s[from:to]
Slice(s, from, to) == [ k \in 1..(to - from) |-> s[from + k] ]

IsLetter(r) == r \in Range(LowerLetters) \cup Range(UpperLetters)

IsDigit(r) == r \in Digits

\* unicode.IsSpace on the characters used here
IsSpace(r) == r \in { " ", "\t", "\n" }

\* strings.TrimSpace
RECURSIVE TrimSpace(_)
TrimSpace(s) ==
   IF s = << >> THEN s
   ELSE IF IsSpace(Head(s)) THEN TrimSpace(Tail(s))
   ELSE IF IsSpace(s[Len(s)]) THEN TrimSpace(SubSeq(s, 1, Len(s) - 1))
   ELSE s

\* strings.Index: the index of the first occurrence, -1 when there is none
Index(text, word) ==
   LET at == { i \in 0..(Len(text) - Len(word)) : Slice(text, i, i + Len(word)) = word }
   IN  IF at = { } THEN -1 ELSE CHOOSE i \in at : \A j \in at : i <= j

\* strings.Contains
Contains(text, word) == Index(text, word) >= 0

\* the loop of tokenize from the character at index i on: tokens are the
\* tokens closed so far, current the run of letters and digits being read
RECURSIVE TokenizeFrom(_, _, _, _)
TokenizeFrom(s, i, tokens, current) ==
   IF i >= Len(s)
      THEN IF Len(current) > 0 THEN Append(tokens, current) ELSE tokens
   ELSE IF IsLetter(At(s, i)) \/ IsDigit(At(s, i))
      THEN TokenizeFrom(s, i + 1, tokens, Append(current, At(s, i)))
   ELSE IF Len(current) > 0
      THEN TokenizeFrom(s, i + 1, Append(tokens, current), << >>)
   ELSE TokenizeFrom(s, i + 1, tokens, current)

tokenize(s) == TokenizeFrom(ToLower(s), 0, << >>, << >>)

\* containsWord: the first occurrence of word in text, with no letter or
\* digit right before it and none right after it
containsWord(text, word) ==
   LET idx    == Index(text, word)
       endIdx == idx + Len(word)
   IN  IF idx = -1 THEN FALSE
       ELSE IF idx > 0 /\ (IsLetter(At(text, idx - 1)) \/ IsDigit(At(text, idx - 1)))
          THEN FALSE
       ELSE IF endIdx < Len(text)
               /\ (IsLetter(At(text, endIdx)) \/ IsDigit(At(text, endIdx)))
          THEN FALSE
       ELSE TRUE

\* the loop of fuzzyContains from index i on
RECURSIVE FuzzyScan(_, _, _, _, _)
FuzzyScan(text, pattern, i, patternIdx, gaps) ==
   IF ~(i < Len(text) /\ patternIdx < Len(pattern))
      THEN patternIdx = Len(pattern)
   ELSE IF At(text, i) = At(pattern, patternIdx)
      THEN FuzzyScan(text, pattern, i + 1, patternIdx + 1, 0)
   ELSE IF patternIdx > 0
      THEN IF gaps + 1 > Len(pattern) THEN FALSE
           ELSE FuzzyScan(text, pattern, i + 1, patternIdx, gaps + 1)
   ELSE FuzzyScan(text, pattern, i + 1, patternIdx, gaps)

\* fuzzyContains: the pattern's characters in order, at most len(pattern)
\* other characters in a row once the first has matched
fuzzyContains(text, pattern) ==
   IF Len(pattern) = 0 THEN TRUE
   ELSE IF Len(text) = 0 THEN FALSE
   ELSE FuzzyScan(text, pattern, 0, 0, 0)

Max(a, b) == IF a > b THEN a ELSE b

\* the indices idx .. idx+len(token)-1 of the first occurrence
HighlightsOf(text, token) ==
   LET idx == Index(text, token)
   IN  IF idx >= 0 THEN [ k \in 1..Len(token) |-> idx + k - 1 ] ELSE << >>

\* scoreToken, the score of the primary text: the first rung that holds
PrimaryScore(token, text) ==
   IF containsWord(text, token) THEN Pct(100)
   ELSE IF Contains(text, token) THEN Pct(70)
   ELSE IF fuzzyContains(text, token) THEN Pct(40)
   ELSE 0

\* scoreToken, the score the secondary text can raise the score to
SecondaryScore(token, secondary) ==
   IF secondary = << >> THEN 0
   ELSE IF containsWord(secondary, token) THEN Pct(60)
   ELSE IF Contains(secondary, token) THEN Pct(40)
   ELSE IF fuzzyContains(secondary, token) THEN Pct(20)
   ELSE 0

\* scoreToken, the score the scope can raise the score to
ScopeScore(token, scope) ==
   IF scope # << >> /\ Contains(scope, token) THEN Pct(30) ELSE 0

\* scoreToken: the ladder on the primary text, raised by the secondary text
\* and by the scope; the highlights are those of the first occurrence
scoreToken(token, text, secondary, scope) ==
   [ score      |-> Max(Max(PrimaryScore(token, text), SecondaryScore(token, secondary)),
                        ScopeScore(token, scope)),
     highlights |-> HighlightsOf(text, token) ]

\* scoreItem, the body of its loop: a token with a positive score is counted
Accumulate(before, one) ==
   IF one.score > 0
      THEN [ totalScore    |-> before.totalScore + one.score,
             matchedTokens |-> before.matchedTokens + 1,
             allHighlights |-> before.allHighlights \o one.highlights ]
      ELSE before

\* the loop of scoreItem over the first k tokens: the sum of the positive
\* token scores, their number, and their highlights
RECURSIVE ScoreTokens(_, _, _)
ScoreTokens(queryTokens, item, k) ==
   IF k = 0 THEN [ totalScore |-> 0, matchedTokens |-> 0, allHighlights |-> << >> ]
   ELSE CHOOSE after \in
           { Accumulate(before, one) :
                before \in { ScoreTokens(queryTokens, item, k - 1) },
                one    \in { scoreToken(queryTokens[k], ToLower(item.Text),
                                        ToLower(item.SecondaryText), ToLower(item.Scope)) } } :
           TRUE

\* scoreItem after its loop, without the penalty for tokens that did not match
NormalizeNoPenalty(sum, n) ==
   [ score |-> sum.totalScore \div n, highlights |-> sum.allHighlights ]

\* scoreItem after its loop: the sum scaled by matched/total * 0.5 when a
\* token did not match, and divided by the number of tokens
Normalize(sum, n) ==
   [ score      |-> IF sum.matchedTokens < n
                       THEN ((sum.totalScore * sum.matchedTokens) \div (2 * n)) \div n
                       ELSE sum.totalScore \div n,
     highlights |-> sum.allHighlights ]

scoreItem(queryTokens, item) ==
   IF Len(queryTokens) = 0 THEN [ score |-> 0, highlights |-> << >> ]
   ELSE CHOOSE scored \in
           { Normalize(sum, Len(queryTokens)) :
                sum \in { ScoreTokens(queryTokens, item, Len(queryTokens)) } } :
           TRUE

SearchResult(item, scored) ==
   [ ID |-> item.ID, Type |-> item.Type, Text |-> item.Text,
     SecondaryText |-> item.SecondaryText, Scope |-> item.Scope,
     Score |-> scored.score, Highlights |-> scored.highlights ]

\* FuzzySearch, the body of its loop: an item scoring at least the
\* threshold is appended
AppendKept(before, item, scored, threshold) ==
   IF scored.score >= threshold
      THEN Append(before, SearchResult(item, scored))
      ELSE before

\* the loop of FuzzySearch over the first k items
RECURSIVE Kept(_, _, _, _)
Kept(queryTokens, items, threshold, k) ==
   IF k = 0 THEN << >>
   ELSE CHOOSE after \in
           { AppendKept(before, items[k], scored, threshold) :
                before \in { Kept(queryTokens, items, threshold, k - 1) },
                scored \in { scoreItem(queryTokens, items[k]) } } :
           TRUE

\* sort.Slice left out: the results stay in the order of the items
SortSliceSkipped(rs) == { rs }

\* sort.Slice by Score descending: it is not a stable sort, so every order
\* of the elements with no higher score after a lower one is a possible result
SortSlice(rs) ==
   LET n     == Len(rs)
       perms == { p \in [ 1..n -> 1..n ] : \A i, j \in 1..n : i # j => p[i] # p[j] }
   IN  { [ k \in 1..n |-> rs[p[k]] ] :
            p \in { q \in perms : \A i \in 1..(n - 1) : ~(rs[q[i + 1]].Score > rs[q[i]].Score) } }

\* FuzzySearch: the results it may return (nil is the empty sequence)
FuzzySearch(query, items, threshold) ==
   IF query = << >> THEN { << >> }
   ELSE UNION { SortSlice(kept) :
                   kept \in { Kept(queryTokens, items, threshold, Len(items)) :
                                 queryTokens \in { tokenize(ToLower(TrimSpace(query))) } } }

(***************************************************************************)
(* Specification: the matcher applied to sampled items and queries         *)
(***************************************************************************)

MaxItems == 3

SearchItem(id, type, text, secondaryText, scope) ==
   [ ID |-> id, Type |-> type, Text |-> text,
     SecondaryText |-> secondaryText, Scope |-> scope ]

ItemSamples ==
   { \* "Auth uses JWT tokens"
     SearchItem("f1", "finding",
                << "A", "u", "t", "h", " ", "u", "s", "e", "s", " ", "J", "W", "T", " ", "t", "o", "k", "e", "n", "s" >>,
                << >>, << >>),
     \* "jwts jwt"
     SearchItem("f2", "finding",
                << "j", "w", "t", "s", " ", "j", "w", "t" >>,
                << >>, << >>),
     \* "pool size?" in "jwt.go"
     SearchItem("u1", "unknown",
                << "p", "o", "o", "l", " ", "s", "i", "z", "e", "?" >>,
                << >>, << "j", "w", "t", ".", "g", "o" >>),
     \* "retry" / "JWT cache"
     SearchItem("d1", "dead_end",
                << "r", "e", "t", "r", "y" >>,
                << "J", "W", "T", " ", "c", "a", "c", "h", "e" >>, << >>),
     \* "j.w.t"
     SearchItem("f3", "finding",
                << "j", ".", "w", ".", "t" >>,
                << >>, << >>) }

QuerySamples ==
   { << "j", "w", "t" >>,
     << "J", "W", "T", " ", "t", "o", "k", "e", "n", "s" >>,
     << " ", " ", "j", "w", "t", " " >>,
     << "j", "w", "t", ",", " ", "p", "o", "o", "l" >>,
     << "x", "y", "z", "1", "2", "3", "n", "o", "t", "f", "o", "u", "n", "d" >>,
     << " " >>,
     << >> }

TokenSamples ==
   { << "j", "w", "t" >>,
     << "t", "o", "k", "e", "n", "s" >>,
     << "p", "o", "o", "l" >>,
     << "j", "t" >>,
     << "x", "y", "z", "1", "2", "3", "n", "o", "t", "f", "o", "u", "n", "d" >> }

ThresholdSamples == { 0, Pct(30), Pct(70) }

ItemLists == SeqsUpTo(ItemSamples, MaxItems)

InitSearch ==
   /\ now = Epoch
   /\ gitHash = GitNow
   /\ EngineIdle
   /\ StoreIdle
   /\ AdminIdle
   /\ results = None
   /\ \/ \E token \in TokenSamples, item \in ItemSamples :
            search = Some([ call |-> "scoreToken", token |-> token, item |-> item ])
      \/ \E query \in QuerySamples, item \in ItemSamples :
            search = Some([ call |-> "scoreItem", queryTokens |-> tokenize(query),
                            item |-> item ])
      \/ \E query \in QuerySamples, items \in ItemLists, threshold \in ThresholdSamples :
            search = Some([ call |-> "FuzzySearch", query |-> query, items |-> items,
                            threshold |-> threshold ])

SearchFrame ==
   UNCHANGED << now, gitHash, findings, openUnknowns, resolvedUnknowns, deadEnds,
                sessionStart, epistemic, guidance, vectors, assessment, subject,
                staleness, sessionContext, oracle, storeVars, search, adminVars >>

\* scoreToken as scoreItem calls it, on the lower-cased fields of the item
ScoreToken ==
   /\ IsSome(search) /\ Val(search).call = "scoreToken" /\ results = None
   /\ LET s == Val(search)
      IN  results' = Some(scoreToken(s.token, ToLower(s.item.Text),
                                     ToLower(s.item.SecondaryText), ToLower(s.item.Scope)))
   /\ SearchFrame

ScoreItem ==
   /\ IsSome(search) /\ Val(search).call = "scoreItem" /\ results = None
   /\ results' = Some(scoreItem(Val(search).queryTokens, Val(search).item))
   /\ SearchFrame

CallFuzzySearch ==
   /\ IsSome(search) /\ Val(search).call = "FuzzySearch" /\ results = None
   /\ \E rs \in FuzzySearch(Val(search).query, Val(search).items, Val(search).threshold) :
         results' = Some(rs)
   /\ SearchFrame

NextSearch ==
   \/ ScoreToken
   \/ ScoreItem
   \/ CallFuzzySearch

SpecSearch == InitSearch /\ [][NextSearch]_vars

(***************************************************************************)
(* Properties of the matcher                                               *)
(***************************************************************************)

\* the token occurs at index idx of the text with no letter or digit right
\* before it and none right after it
C18_WholeWordAt(text, token, idx) ==
   /\ Slice(text, idx, idx + Len(token)) = token
   /\ idx > 0 => ~(IsLetter(At(text, idx - 1)) \/ IsDigit(At(text, idx - 1)))
   /\ idx + Len(token) < Len(text) =>
         ~(IsLetter(At(text, idx + Len(token))) \/ IsDigit(At(text, idx + Len(token))))

\* C18: for every query token and item, if the token occurs anywhere in the
\* item's lower-cased primary text as a whole word, the token's score is 1.0;
\* otherwise, if it occurs as a substring of the primary text, its score from
\* the primary text is 0.7 (which no other field can raise).
C18_WholeWordScoresOne ==
   (IsSome(search) /\ Val(search).call = "scoreToken" /\ IsSome(results)) =>
      LET token == Val(search).token
          text  == ToLower(Val(search).item.Text)
      IN  IF \E idx \in 0..(Len(text) - Len(token)) : C18_WholeWordAt(text, token, idx)
             THEN Val(results).score = Pct(100)
             ELSE Contains(text, token) => Val(results).score = Pct(70)

\* the n token scores of a scoreItem call
C19_Scores(queryTokens, item) ==
   [ k \in 1..Len(queryTokens) |->
        scoreToken(queryTokens[k], ToLower(item.Text),
                   ToLower(item.SecondaryText), ToLower(item.Scope)).score ]

RECURSIVE C19_Sum(_, _)
C19_Sum(scores, k) == IF k = 0 THEN 0 ELSE scores[k] + C19_Sum(scores, k - 1)

C19_Matched(scores) == Cardinality({ k \in DOMAIN scores : scores[k] > 0 })

\* C19: for a query of n >= 1 tokens, m of them with a positive token score,
\* S the sum of the token scores: the item's final score is S/n when m = n
\* and S * (m/n) * 0.5 / n when m < n (to the last digit kept); it lies in
\* [0, 1], and it is 0 for an item that matches no token.
C19_FinalScore ==
   (/\ IsSome(search) /\ Val(search).call = "scoreItem" /\ IsSome(results)
    /\ Len(Val(search).queryTokens) >= 1) =>
      LET scores == C19_Scores(Val(search).queryTokens, Val(search).item)
          n      == Len(Val(search).queryTokens)
          m      == C19_Matched(scores)
          S      == C19_Sum(scores, n)
          score  == Val(results).score
      IN  /\ m = n => score * n <= S /\ S < (score + 1) * n
          /\ m < n => score * 2 * n * n <= S * m /\ S * m < (score + 1) * 2 * n * n
          /\ 0 <= score /\ score <= Scale
          /\ m = 0 => score = 0

\* "jwt, pool" against "Auth uses JWT tokens": one token of two matches, as a
\* whole word, and the item scores 1.0 * (1/2) * 0.5 / 2
C19_Witness ==
   /\ IsSome(search) /\ Val(search).call = "scoreItem" /\ IsSome(results)
   /\ Len(Val(search).queryTokens) = 2
   /\ C19_Matched(C19_Scores(Val(search).queryTokens, Val(search).item)) = 1
   /\ Val(results).score = Pct(25) \div 2

\* the tokens FuzzySearch scores the items against
C20_Tokens == tokenize(ToLower(TrimSpace(Val(search).query)))

\* the score of an item of the call
C20_Score(item) == scoreItem(C20_Tokens, item).score

\* the item a result was made from
C20_ItemOf(r) == SearchItem(r.ID, r.Type, r.Text, r.SecondaryText, r.Scope)

\* the results are the items scoring at least the threshold, as many times as
\* they were passed, each with its score, no higher score after a lower one
C20_KeptAndSorted ==
   LET items     == Val(search).items
       threshold == Val(search).threshold
       rs        == Val(results)
   IN  /\ \A k \in DOMAIN rs :
             /\ rs[k].Score = C20_Score(C20_ItemOf(rs[k]))
             /\ rs[k].Score >= threshold
       /\ \A item \in Range(items) :
             Cardinality({ k \in DOMAIN rs : C20_ItemOf(rs[k]) = item })
                = IF C20_Score(item) >= threshold
                     THEN Cardinality({ k \in DOMAIN items : items[k] = item })
                     ELSE 0
       /\ \A k \in DOMAIN rs : C20_ItemOf(rs[k]) \in Range(items)
       /\ \A i, j \in DOMAIN rs : i < j => rs[i].Score >= rs[j].Score
       /\ threshold > 0 =>
             \A k \in DOMAIN rs :
                C19_Matched(C19_Scores(C20_Tokens, C20_ItemOf(rs[k]))) > 0

MaxHours == 2

InitClock ==
   /\ now = Epoch
   /\ gitHash = GitNow
   /\ epistemic = None
   /\ guidance = None
   /\ assessment = None
   /\ staleness = None
   /\ sessionContext = None
   /\ StoreIdle
   /\ SearchIdle
   /\ AdminIdle
   /\ NoLists
   /\ vectors = None
   /\ oracle = None
   /\ subject \in
         { Some([ finding |-> Some(f), confidence |-> None, fileChanged |-> b ]) :
              f \in SubjectFindings, b \in BOOLEAN }

\* an hour passes
Hour ==
   /\ (now - Epoch) % TickHours < MaxHours
   /\ now' = now + 1
   /\ UNCHANGED << gitHash, findings, openUnknowns, resolvedUnknowns, deadEnds,
                   sessionStart, epistemic, guidance, vectors, assessment, subject,
                   staleness, sessionContext, oracle, storeVars, searchVars, adminVars >>

\* f.CalculateConfidence() and f.GetStalenessStatus(fileChanged) on the same
\* finding, now or at a later time than the last call; at is the clock value
AskStalenessAgain ==
   /\ IsSome(subject)
   /\ IF IsSome(staleness) THEN Val(staleness).at < now ELSE TRUE
   /\ LET f == Val(Val(subject).finding)
      IN  staleness' = Some([ confidence |-> CalculateConfidence(f, now),
                              status     |-> GetStalenessStatus(f, now,
                                                Val(subject).fileChanged),
                              at         |-> now ])
   /\ UNCHANGED << now, gitHash, findings, openUnknowns, resolvedUnknowns, deadEnds,
                   sessionStart, epistemic, guidance, vectors, assessment, subject,
                   sessionContext, oracle, storeVars, searchVars, adminVars >>

NextClock ==
   \/ Tick
   \/ Hour
   \/ AskStalenessAgain

SpecClock == InitClock /\ [][NextClock]_vars

\* the tiers in the order a finding goes through them
C21_Rank(status) ==
   CASE status = StatusFresh -> 0
     [] status = StatusAging -> 1
     [] status = StatusStale -> 2

\* C21: a finding's confidence is exp(-ln(2)/14 * daysElapsed): 1.0 at the
\* base timestamp, 0.5 at exactly 14 days elapsed, and strictly decreasing in
\* the elapsed time; so with the file-change status fixed and no verification
\* its tier only ever moves fresh -> aging -> stale as the clock advances.
C21_DecayOverTime ==
   [][ (IsSome(staleness') /\ staleness' # staleness) =>
          LET new  == Val(staleness')
              base == C6_Base(Val(Val(subject).finding))
          IN  /\ new.at = base => new.confidence = Scale
              /\ new.at = base + DecayHalfLifeDays * HoursPerDay =>
                    new.confidence = Pct(50)
              /\ IsSome(staleness) =>
                    /\ new.at > Val(staleness).at
                    /\ new.confidence < Val(staleness).confidence
                    /\ C21_Rank(new.status) >= C21_Rank(Val(staleness).status) ]_vars

\* a finding 109 hours old was fresh; asked again ten days later it is aging,
\* with a confidence below one half
C21_Witness ==
   /\ IsSome(subject) /\ IsSome(staleness)
   /\ ~Val(subject).fileChanged
   /\ C6_Base(Val(Val(subject).finding)) = Epoch - 109
   /\ Val(staleness).at = Epoch + TickHours
   /\ Val(staleness).status = StatusAging
   /\ Val(staleness).confidence < Pct(50)

(***************************************************************************)
(* Properties of the session context's confidences                         *)
(***************************************************************************)

\* C27: the confidence attached to each finding in the session context lies in
\* the range of the tier it is listed under: below 0.40 in
\* requires_verification, in [0.40, 0.70) for knowledge with status "aging",
\* at least 0.70 for knowledge with status "fresh" -- findings whose file
\* changed included.
C27_ConfidenceInTierRange ==
   IsSome(sessionContext) =>
      LET ctx == Val(sessionContext)
      IN  /\ \A i \in DOMAIN ctx.RequiresVerification :
                ctx.RequiresVerification[i].Confidence < Pct(40)
          /\ \A i \in DOMAIN ctx.Knowledge :
                LET k == ctx.Knowledge[i]
                IN  /\ k.Status = "aging" =>
                          (Pct(40) <= k.Confidence /\ k.Confidence < Pct(70))
                    /\ k.Status = "fresh" => k.Confidence >= Pct(70)

(***************************************************************************)
(* Properties of the synthesized know and uncertainty                      *)
(***************************************************************************)

\* the prerequisites of the guidance, as a set
C29_Prerequisites == { Val(guidance).Prerequisites[i] : i \in DOMAIN Val(guidance).Prerequisites }

\* C29: the synthesized know is never below 0.50, so NeedsInvestigation holds
\* exactly when uncertainty > 0.50, that is when more unknowns are open than
\* resolved among those listed, and the prerequisite "Log discoveries with
\* memory learned" is never produced.
C29_InvestigationIffMoreOpen ==
   /\ IsSome(epistemic) =>
         LET e == Val(epistemic)
         IN  /\ e.Know >= Pct(50)
             /\ e.NeedsInvestigation <=> e.Uncertainty > Pct(50)
             /\ e.NeedsInvestigation <=> Len(openUnknowns) > Len(resolvedUnknowns)
   /\ IsSome(guidance) => PrereqLearn \notin C29_Prerequisites

(***************************************************************************)
(* Specification: unknowns resolved one by one between two status calls    *)
(***************************************************************************)

\* a session with breadcrumb lists, before the first status call
InitResolve ==
   /\ now = Epoch
   /\ gitHash = GitNow
   /\ epistemic = None
   /\ guidance = None
   /\ assessment = None
   /\ staleness = None
   /\ sessionContext = None
   /\ StoreIdle
   /\ SearchIdle
   /\ AdminIdle
   /\ InitSession

\* ResolveUnknown on a listed open unknown, then the status synthesis again at
\* the same clock value: the unknown is listed as resolved instead of open;
\* result keeps the state synthesized before the resolution
ResolveListedUnknown ==
   /\ IsSome(epistemic)
   /\ Len(openUnknowns) > 0
   /\ Len(resolvedUnknowns) < MaxResolved
   /\ openUnknowns' = Tail(openUnknowns)
   /\ resolvedUnknowns' = << [ Head(openUnknowns) EXCEPT !.IsResolved = TRUE ] >>
                             \o resolvedUnknowns
   /\ epistemic' = Some(calculateEpistemicState(findings, openUnknowns',
                           resolvedUnknowns', deadEnds, Val(sessionStart), now))
   /\ result' = epistemic
   /\ UNCHANGED << now, gitHash, findings, deadEnds, sessionStart, guidance, vectors,
                   assessment, subject, staleness, sessionContext, oracle,
                   projectFindings, projectUnknowns, searchVars, adminVars >>

NextResolve ==
   \/ CalculateEpistemicState
   \/ ResolveListedUnknown

SpecResolve == InitResolve /\ [][NextResolve]_vars

\* C30: resolving an open unknown never makes the synthesized state worse: for
\* the same findings, dead ends and clock value, moving one unknown from the
\* open list to the resolved list does not decrease know, completion or
\* coherence, does not increase uncertainty, and cannot change the recommended
\* action from "proceed" to "investigate".
C30_ResolvingNeverWorsens ==
   IsSome(result) =>
      LET before == Val(result)
          after  == Val(epistemic)
      IN  /\ after.Know >= before.Know
          /\ after.Completion >= before.Completion
          /\ after.Coherence >= before.Coherence
          /\ after.Uncertainty <= before.Uncertainty
          /\ before.RecommendedAction = "proceed" =>
                after.RecommendedAction # "investigate"

\* With 7 listed unknowns of which 4 were open, resolving one moved the action
\* from investigate to proceed: know and completion went up, uncertainty down.
C30_Witness ==
   /\ IsSome(result)
   /\ Len(openUnknowns) = 3
   /\ Len(resolvedUnknowns) = 4
   /\ Val(result).RecommendedAction = "investigate"
   /\ Val(epistemic).RecommendedAction = "proceed"
   /\ Val(epistemic).Completion > Val(result).Completion
   /\ Val(epistemic).Uncertainty < Val(result).Uncertainty

(***************************************************************************)
(* Specification: status calls of one session, with breadcrumbs logged     *)
(* and the clock advancing between them                                    *)
(***************************************************************************)

\* breadcrumbs logged during the session
MaxLogged == 2

\* a session just started or started earlier, nothing logged, no status yet
InitStatus ==
   /\ now = Epoch
   /\ gitHash = GitNow
   /\ epistemic = None
   /\ guidance = None
   /\ assessment = None
   /\ staleness = None
   /\ sessionContext = None
   /\ StoreIdle
   /\ SearchIdle
   /\ AdminIdle
   /\ findings = << >>
   /\ openUnknowns = << >>
   /\ resolvedUnknowns = << >>
   /\ deadEnds = << >>
   /\ sessionStart \in { Some(Epoch - h) : h \in ElapsedSamples }
   /\ vectors = None
   /\ subject = None
   /\ oracle = None

\* the lists of the session are left alone
ListsUnchanged == UNCHANGED << findings, openUnknowns, resolvedUnknowns, deadEnds >>

\* what no command of the session touches
SessionFrame ==
   UNCHANGED << gitHash, sessionStart, guidance, vectors, assessment, subject,
                staleness, sessionContext, oracle, projectFindings, projectUnknowns,
                searchVars, adminVars >>

Logged == Len(findings) + Len(openUnknowns) + Len(resolvedUnknowns) + Len(deadEnds)

\* memory status: buildSessionContext with active.StartedAt; result keeps the
\* state reported by the status call before
Status ==
   /\ IsSome(sessionStart)
   /\ epistemic' = Some(calculateEpistemicState(findings, openUnknowns,
                           resolvedUnknowns, deadEnds, Val(sessionStart), now))
   /\ result' = epistemic
   /\ UNCHANGED now
   /\ ListsUnchanged
   /\ SessionFrame

\* memory learned: a finding, listed first
LogFinding ==
   /\ Logged < MaxLogged
   /\ \E subj \in { None, Some("a.go") } :
         findings' = << Finding(now, Some(now), subj,
                                IF IsSome(subj) THEN Some("h1") ELSE None) >>
                        \o findings
   /\ UNCHANGED << now, openUnknowns, resolvedUnknowns, deadEnds, epistemic, result >>
   /\ SessionFrame

\* memory uncertain: an open unknown
LogUnknown ==
   /\ Logged < MaxLogged
   /\ openUnknowns' = << Unknown(FALSE) >> \o openUnknowns
   /\ UNCHANGED << now, findings, resolvedUnknowns, deadEnds, epistemic, result >>
   /\ SessionFrame

\* memory resolved: an open unknown becomes a resolved one
LogResolution ==
   /\ Len(openUnknowns) > 0
   /\ openUnknowns' = Tail(openUnknowns)
   /\ resolvedUnknowns' = << Unknown(TRUE) >> \o resolvedUnknowns
   /\ UNCHANGED << now, findings, deadEnds, epistemic, result >>
   /\ SessionFrame

\* memory tried: a dead end
LogDeadEnd ==
   /\ Logged < MaxLogged
   /\ deadEnds' = << DeadEnd >> \o deadEnds
   /\ UNCHANGED << now, findings, openUnknowns, resolvedUnknowns, epistemic, result >>
   /\ SessionFrame

\* memory verify: the last-verified timestamp and the hash of a finding renewed
LogVerification ==
   /\ \E i \in DOMAIN findings :
         /\ Val(findings[i].LastVerifiedTimestamp) < now
         /\ findings' = [ findings EXCEPT ![i] =
                            [ @ EXCEPT !.LastVerifiedTimestamp = Some(now),
                                       !.SubjectGitHash =
                                          IF IsSome(@) THEN Some(gitHash["a.go"]) ELSE @ ] ]
   /\ UNCHANGED << now, openUnknowns, resolvedUnknowns, deadEnds, epistemic, result >>
   /\ SessionFrame

\* an hour passes
SessionHour ==
   /\ now < Epoch + MaxHours
   /\ now' = now + 1
   /\ UNCHANGED << epistemic, result >>
   /\ ListsUnchanged
   /\ SessionFrame

NextStatus ==
   \/ Status
   \/ LogFinding
   \/ LogUnknown
   \/ LogResolution
   \/ LogDeadEnd
   \/ LogVerification
   \/ SessionHour

SpecStatus == InitStatus /\ [][NextStatus]_vars

\* 2^(-h/2), at least 0.1, for h = -2 .. 11 hours since the session start
C28_Decay ==
   << 2000000, 1414214, 1000000, 707107, 500000, 353553, 250000, 176777,
      125000, 100000, 100000, 100000, 100000, 100000 >>

\* C28: within one session, engagement depends only on the time elapsed since
\* the session start and is non-increasing as the clock advances; so once a
\* status call reports the action "stop", every later status call of the
\* session reports "stop", whatever was logged in between.
C28_StopIsFinal ==
   [][ Status =>
          LET after == Val(epistemic')
          IN  /\ C9_Near(after.Engagement,
                         C28_Decay[now - Val(sessionStart) + 3], 2)
              /\ IsSome(epistemic) =>
                    /\ after.Engagement <= Val(epistemic).Engagement
                    /\ Val(epistemic).RecommendedAction = "stop" =>
                          after.RecommendedAction = "stop" ]_vars

\* A status call reported "stop"; an unknown was logged and resolved and a
\* finding logged, which raised know and completion; the next status call
\* reports "stop" again.
C28_Witness ==
   /\ IsSome(result)
   /\ Val(result).RecommendedAction = "stop"
   /\ Val(epistemic).RecommendedAction = "stop"
   /\ Val(epistemic).Know > Val(result).Know
   /\ Val(epistemic).Completion > Val(result).Completion
   /\ Len(findings) = 1
   /\ Len(resolvedUnknowns) = 1

(***************************************************************************)
(* Properties of the two read paths of a finding                           *)
(***************************************************************************)

\* C24: GetFinding and ListFindings, which read the finding_data JSON, return
\* the same finding text, last-verified timestamp and subject hash as
\* ListFindingsWithStaleness, which reads the columns, after any sequence of
\* CreateFinding and VerifyFinding calls; after VerifyFinding(id, hash, newText)
\* GetFinding(id) returns newText and the new timestamp.
C24_BlobAgreesWithColumns ==
   /\ \A id \in DOMAIN projectFindings :
         LET blob == Val(GetFinding(projectFindings, id))
             cols == ScanFinding(projectFindings[id])
         IN  /\ blob.Finding = cols.Finding
             /\ blob.LastVerifiedTimestamp = cols.LastVerifiedTimestamp
             /\ blob.SubjectGitHash = cols.SubjectGitHash
   /\ ( /\ IsSome(result)
        /\ Val(result).op = "VerifyFinding"
        /\ Val(result).err = None )
      => LET got == Val(GetFinding(projectFindings, Val(result).id))
         IN  /\ got.LastVerifiedTimestamp = Some(now)
             /\ IsSome(Val(result).updatedText) =>
                   got.Finding = Val(Val(result).updatedText)

(***************************************************************************)
(* The verify command suggested for a stale finding                        *)
(***************************************************************************)

\* uuid.New().String() of the n-th id: 36 characters, 8-4-4-4-12
UUIDString(n) ==
   Repeat("0", 7) \o << << "1", "2", "3", "4", "5", "6", "7", "8", "9" >>[n] >>
      \o << "-" >> \o Repeat("0", 4) \o << "-", "4" >> \o Repeat("0", 3)
      \o << "-", "8" >> \o Repeat("0", 3) \o << "-" >> \o Repeat("0", 12)

\* WHERE id = ?: the key of the row whose id is the text, 0 when no row has it
RowOfID(table, text) ==
   IF \E i \in DOMAIN table : UUIDString(i) = text
      THEN CHOOSE i \in DOMAIN table : UUIDString(i) = text
      ELSE 0

truncateText(text, maxLen) ==
   IF Len(text) <= maxLen THEN text
                          ELSE SubSeq(text, 1, maxLen - 3) \o << ".", ".", "." >>

\* verifyCmd of buildSessionContext: memory verify "<text>", or memory verify
\* --id <first 8 characters of the ID> for an ID of 8 characters or more
VerifyCommandOf(f) ==
   IF Len(UUIDString(f.ID)) >= 8
      THEN [ findingID |-> Some(SubSeq(UUIDString(f.ID), 1, 8)), args |-> None ]
      ELSE [ findingID |-> None, args |-> Some(truncateText(f.Finding, 30)) ]

\* the verify_command of a finding listed in requires_verification, executed
\* in the session whose status listed it
RunVerifyCommand ==
   /\ \E id \in DOMAIN projectFindings :
         LET f    == ScanFinding(projectFindings[id])
             cmd  == VerifyCommandOf(f)
             key  == IF IsSome(cmd.findingID)
                        THEN Some(RowOfID(projectFindings, Val(cmd.findingID)))
                        ELSE None
             done == verifyCmd(projectFindings, Some(f.ProjectID), key, cmd.args,
                               << >>, now)
         IN  /\ Categorized(f, now).category = ListRequiresVerification
             /\ projectFindings' = done.table
             /\ result' = Some([ op    |-> "verify_command",
                                 id    |-> id,
                                 found |-> done.found,
                                 err   |-> done.err,
                                 out   |-> done.out ])
   /\ UNCHANGED << now, gitHash, findings, openUnknowns, resolvedUnknowns, deadEnds,
                   sessionStart, epistemic, guidance, vectors, assessment, subject,
                   staleness, sessionContext, oracle, projectUnknowns, searchVars, adminVars >>

NextVerifyCommand ==
   \/ Tick
   \/ Learned
   \/ VerifyCmd
   \/ RunVerifyCommand

SpecVerifyCommand == InitFindings /\ [][NextVerifyCommand]_vars

\* C22: for every stale finding listed in requires_verification, executing the
\* verify_command attached to it (memory verify --id <first 8 characters of the
\* ID>) locates that finding and refreshes its last-verified timestamp, so
\* that the finding is no longer stale on the next status call.
C22_VerifyCommandRefreshes ==
   ( /\ IsSome(result)
     /\ Val(result).op = "verify_command" )
   => LET f == ScanFinding(projectFindings[Val(result).id])
      IN  /\ Val(result).err = None
          /\ f.LastVerifiedTimestamp = Some(now)
          /\ Categorized(f, now).category # ListRequiresVerification

(***************************************************************************)
(* Goals: GoalRepository                                                   *)
(***************************************************************************)

GoalStatusInProgress == "in_progress"

GoalStatusComplete == "complete"

\* models.NewGoal
NewGoal(id, sessionID, objective, t) ==
   [ ID                 |-> id,
     SessionID          |-> sessionID,
     Objective          |-> objective,
     CreatedTimestamp   |-> t,
     CompletedTimestamp |-> None,
     IsCompleted        |-> FALSE,
     Status             |-> GoalStatusInProgress ]

\* json.Marshal of a Goal: an object with one key per field, completed_timestamp
\* (omitempty) only when the pointer is set
MarshalGoal(goal) ==
   [ k \in { "id", "session_id", "objective", "created_timestamp", "is_completed",
             "status" }
           \cup (IF IsSome(goal.CompletedTimestamp) THEN { "completed_timestamp" }
                                                    ELSE { }) |->
        CASE k = "id" -> goal.ID
          [] k = "session_id" -> goal.SessionID
          [] k = "objective" -> goal.Objective
          [] k = "created_timestamp" -> goal.CreatedTimestamp
          [] k = "completed_timestamp" -> Val(goal.CompletedTimestamp)
          [] k = "is_completed" -> goal.IsCompleted
          [] k = "status" -> goal.Status ]

\* json.Unmarshal into a Goal: the fields whose keys the object has are
\* overwritten, the others keep their values
UnmarshalGoal(data, goal) ==
   [ ID                 |-> IF "id" \in DOMAIN data THEN data["id"] ELSE goal.ID,
     SessionID          |-> IF "session_id" \in DOMAIN data THEN data["session_id"]
                                                            ELSE goal.SessionID,
     Objective          |-> IF "objective" \in DOMAIN data THEN data["objective"]
                                                           ELSE goal.Objective,
     CreatedTimestamp   |-> IF "created_timestamp" \in DOMAIN data
                               THEN data["created_timestamp"]
                               ELSE goal.CreatedTimestamp,
     CompletedTimestamp |-> IF "completed_timestamp" \in DOMAIN data
                               THEN Some(data["completed_timestamp"])
                               ELSE goal.CompletedTimestamp,
     IsCompleted        |-> IF "is_completed" \in DOMAIN data THEN data["is_completed"]
                                                              ELSE goal.IsCompleted,
     Status             |-> IF "status" \in DOMAIN data THEN data["status"]
                                                        ELSE goal.Status ]

\* the zero value of Goal
ZeroGoal ==
   [ ID |-> 0, SessionID |-> "", Objective |-> << >>, CreatedTimestamp |-> 0,
     CompletedTimestamp |-> None, IsCompleted |-> FALSE, Status |-> "" ]

\* GoalRepository.Create: the columns from the struct, goal_data its JSON
Create(table, goal) ==
   Insert(table, goal.ID,
          [ ID                 |-> goal.ID,
            SessionID          |-> goal.SessionID,
            Objective          |-> goal.Objective,
            CreatedTimestamp   |-> goal.CreatedTimestamp,
            CompletedTimestamp |-> None,
            IsCompleted        |-> goal.IsCompleted,
            Status             |-> goal.Status,
            GoalData           |-> MarshalGoal(goal) ])

\* GoalRepository.Get: the columns scanned into a Goal, then goal_data
\* unmarshalled into the same Goal; nil when there is no row
Get(table, goalID) ==
   IF goalID \notin DOMAIN table THEN None
   ELSE LET row  == table[goalID]
            goal == [ ID                 |-> row.ID,
                      SessionID          |-> row.SessionID,
                      Objective          |-> row.Objective,
                      CreatedTimestamp   |-> row.CreatedTimestamp,
                      CompletedTimestamp |-> row.CompletedTimestamp,
                      IsCompleted        |-> row.IsCompleted,
                      Status             |-> row.Status ]
        IN  Some(UnmarshalGoal(row.GoalData, goal))

\* GoalRepository.List: SELECT goal_data ... [WHERE session_id = ?] [AND
\* is_completed = ?] ORDER BY created_timestamp DESC LIMIT ?
List(table, sessionID, completed, limit) ==
   LET ids   == { i \in DOMAIN table :
                     /\ (sessionID # "" => table[i].SessionID = sessionID)
                     /\ (IsSome(completed) => table[i].IsCompleted = Val(completed)) }
       order == OrderNewestFirst(table, ids)
   IN  [ k \in 1..(IF Len(order) < limit THEN Len(order) ELSE limit) |->
            UnmarshalGoal(table[order[k]].GoalData, ZeroGoal) ]

\* GoalRepository.Complete: UPDATE goals SET is_completed = 1,
\* completed_timestamp = now, status = 'complete' WHERE id = ?
Complete(table, goalID, t) ==
   [ i \in DOMAIN table |->
        IF i = goalID
           THEN [ table[i] EXCEPT !.IsCompleted = TRUE,
                                  !.CompletedTimestamp = Some(t),
                                  !.Status = GoalStatusComplete ]
           ELSE table[i] ]

(***************************************************************************)
(* Specification: the goal repository called on a growing table            *)
(***************************************************************************)

\* goals stored
MaxGoals == 2

\* LIMIT of the list queries
ListLimitSamples == { 1, 10 }

InitGoals ==
   /\ now = Epoch
   /\ gitHash = GitNow
   /\ EngineIdle
   /\ StoreIdle
   /\ SearchIdle
   /\ activeSession = None
   /\ sessions = << >>
   /\ handoffs = << >>
   /\ projectDeadEnds = << >>
   /\ goals = << >>

\* what the goal repository's methods leave alone
GoalFrame ==
   UNCHANGED << now, gitHash, findings, openUnknowns, resolvedUnknowns, deadEnds,
                sessionStart, epistemic, guidance, vectors, assessment, subject,
                staleness, sessionContext, oracle, projectFindings, projectUnknowns,
                searchVars, activeSession, sessions, handoffs, projectDeadEnds >>

\* repo.Create(models.NewGoal(sessionID, objective, scope))
CreateGoal ==
   /\ Cardinality(DOMAIN goals) < MaxGoals
   /\ \E sessionID \in { "s1", "s2" } :
         /\ goals' = Create(goals, NewGoal(NewID(goals), sessionID,
                                           << "g" >>, now))
         /\ result' = Some([ op |-> "Create", id |-> NewID(goals) ])
   /\ GoalFrame

\* repo.Complete(goalID, reason), for ids stored or not
CompleteGoal ==
   /\ \E id \in 1..(MaxGoals + 1) :
         /\ goals' = Complete(goals, id, now)
         /\ result' = Some([ op |-> "Complete", id |-> id ])
   /\ GoalFrame

\* repo.Get(goalID)
GetGoal ==
   /\ \E id \in 1..(MaxGoals + 1) :
         result' = Some([ op |-> "Get", id |-> id, goal |-> Get(goals, id) ])
   /\ UNCHANGED goals
   /\ GoalFrame

\* repo.List(sessionID, completed, limit)
ListGoals ==
   /\ \E sessionID \in { "", "s1" }, completed \in { None, Some(TRUE), Some(FALSE) },
         limit \in ListLimitSamples :
         result' = Some([ op |-> "List", completed |-> completed,
                          goals |-> List(goals, sessionID, completed, limit) ])
   /\ UNCHANGED goals
   /\ GoalFrame

NextGoals ==
   \/ CreateGoal
   \/ CompleteGoal
   \/ GetGoal
   \/ ListGoals
   \/ Tick

SpecGoals == InitGoals /\ [][NextGoals]_vars

\* C23: after Complete(id) on an existing goal, Get(id) returns the goal with
\* is_completed = true and status "complete", and every goal returned by
\* List(completed = true) has is_completed = true.
C23_CompletedGoalReadsCompleted ==
   IsSome(result) =>
      LET r == Val(result)
      IN  /\ ( /\ r.op = "Get"
               /\ r.id \in DOMAIN goals
               /\ goals[r.id].IsCompleted )
             => /\ IsSome(r.goal)
                /\ Val(r.goal).IsCompleted
                /\ Val(r.goal).Status = GoalStatusComplete
          /\ ( /\ r.op = "List"
               /\ r.completed = Some(TRUE) )
             => \A k \in DOMAIN r.goals : r.goals[k].IsCompleted

(***************************************************************************)
(* Specification: fuzzyContains called on sampled texts and patterns       *)
(***************************************************************************)

\* length of the texts searched
MaxTextLen == 7

\* texts over two pattern characters and one other character
FuzzyTexts == SeqsUpTo({ "a", "b", "x" }, MaxTextLen)

FuzzyPatterns == SeqsUpTo({ "a", "b" }, 2)

InitFuzzy ==
   /\ now = Epoch
   /\ gitHash = GitNow
   /\ EngineIdle
   /\ StoreIdle
   /\ AdminIdle
   /\ results = None
   /\ search \in { Some([ call |-> "fuzzyContains", text |-> t, pattern |-> p ]) :
                      t \in FuzzyTexts, p \in FuzzyPatterns }

\* fuzzyContains(text, pattern), as scoreToken calls it
CallFuzzyContains ==
   /\ IsSome(search)
   /\ Val(search).call = "fuzzyContains"
   /\ results = None
   /\ results' = Some(fuzzyContains(Val(search).text, Val(search).pattern))
   /\ SearchFrame

NextFuzzy == CallFuzzyContains

SpecFuzzy == InitFuzzy /\ [][NextFuzzy]_vars

\* the pattern's characters stand at the positions pos of the text, in order
C26_MatchedAt(text, pattern, pos) ==
   /\ \A k \in DOMAIN pattern : text[pos[k]] = pattern[k]
   /\ \A k \in 1..(Len(pattern) - 1) : pos[k] < pos[k + 1]

\* C26: fuzzyContains(text, pattern) returns true whenever the characters of a
\* non-empty pattern occur in the text in order with at most len(pattern)
\* non-matching characters between each pair of consecutive matched
\* characters, for some choice of the match positions, and false whenever the
\* pattern is not an ordered subsequence of the text.
C26_InOrderWithinGaps ==
   (IsSome(search) /\ Val(search).call = "fuzzyContains" /\ IsSome(results)) =>
      LET text      == Val(search).text
          pattern   == Val(search).pattern
          positions == [ DOMAIN pattern -> DOMAIN text ]
      IN  Len(pattern) > 0 =>
             /\ (\E pos \in positions :
                    /\ C26_MatchedAt(text, pattern, pos)
                    /\ \A k \in 1..(Len(pattern) - 1) :
                          pos[k + 1] - pos[k] - 1 <= Len(pattern))
                => Val(results) = TRUE
             /\ (~ \E pos \in positions : C26_MatchedAt(text, pattern, pos))
                => Val(results) = FALSE

(***************************************************************************)
(* Session commands: start, learned, uncertain, tried, done, status        *)
(***************************************************************************)

\* models.NewDeadEnd, as CreateDeadEnd stores it
NewDeadEnd(id, projectID, sessionID, approach, whyFailed, t) ==
   [ ID               |-> id,
     ProjectID        |-> projectID,
     SessionID        |-> sessionID,
     Approach         |-> approach,
     WhyFailed        |-> whyFailed,
     CreatedTimestamp |-> t ]

\* requireActiveSession: the session of the file, or the error
requireActiveSession(file) ==
   IF file = None THEN [ session |-> None, err |-> Some(ErrNoActiveSession) ]
                  ELSE [ session |-> file, err |-> None ]

\* startCmd: a new session row, saved as the active session
start(file, sessionTable, objective, t) ==
   LET id == NewID(sessionTable)
   IN  [ sessions |-> Insert(sessionTable, id,
                             [ SessionID |-> id, ProjectID |-> "p1",
                               Subject |-> objective, EndTime |-> None ]),
         file     |-> Some([ SessionID |-> id, Objective |-> objective,
                             StartedAt |-> t, ProjectID |-> "p1" ]),
         err      |-> None ]

\* triedCmd: a new dead end of the active session
tried(table, file, approach, whyFailed, t) ==
   LET required == requireActiveSession(file)
   IN  IF IsSome(required.err)
          THEN [ table |-> table, err |-> required.err ]
          ELSE LET session == Val(required.session)
               IN  [ table |-> Insert(table, NewID(table),
                                      NewDeadEnd(NewID(table), session.ProjectID,
                                                 session.SessionID, approach,
                                                 whyFailed, t)),
                     err   |-> None ]

\* doneCmd that leaves the active session file in place
doneKeepsSession(file, sessionTable, handoffTable, summary, t) ==
   LET required == requireActiveSession(file)
   IN  IF IsSome(required.err)
          THEN [ file |-> file, sessions |-> sessionTable, handoffs |-> handoffTable,
                 err |-> required.err ]
          ELSE LET session == Val(required.session)
               IN  [ file     |-> file,
                     sessions |-> [ i \in DOMAIN sessionTable |->
                                      IF i = session.SessionID
                                         THEN [ sessionTable[i] EXCEPT !.EndTime = Some(t) ]
                                         ELSE sessionTable[i] ],
                     handoffs |-> Append(handoffTable,
                                         [ SessionID   |-> session.SessionID,
                                           ProjectID   |-> session.ProjectID,
                                           TaskSummary |-> summary ]),
                     err      |-> None ]

\* doneCmd: a handoff is created, the session ended and the active session
\* file removed; without an active session nothing is written
done(file, sessionTable, handoffTable, summary, t) ==
   LET required == requireActiveSession(file)
   IN  IF IsSome(required.err)
          THEN [ file |-> file, sessions |-> sessionTable, handoffs |-> handoffTable,
                 err |-> required.err ]
          ELSE LET session == Val(required.session)
               IN  [ file     |-> None,
                     sessions |-> [ i \in DOMAIN sessionTable |->
                                      IF i = session.SessionID
                                         THEN [ sessionTable[i] EXCEPT !.EndTime = Some(t) ]
                                         ELSE sessionTable[i] ],
                     handoffs |-> Append(handoffTable,
                                         [ SessionID   |-> session.SessionID,
                                           ProjectID   |-> session.ProjectID,
                                           TaskSummary |-> summary ]),
                     err      |-> None ]

\* statusCmd: the Status field of the response
status(file) == IF file = None THEN "no_session" ELSE "active"

(***************************************************************************)
(* Specification: the session commands in any order                        *)
(***************************************************************************)

\* sessions started
MaxSessions == 2

MaxStoredDeadEnds == 1

InitCommands ==
   /\ now = Epoch
   /\ gitHash = GitNow
   /\ EngineIdle
   /\ StoreIdle
   /\ SearchIdle
   /\ AdminIdle

\* the project of the active session, as learned and uncertain take it
ActiveProject ==
   IF IsSome(activeSession) THEN Some(Val(activeSession).ProjectID) ELSE None

\* what no session command touches
CommandFrame ==
   UNCHANGED << now, gitHash, findings, openUnknowns, resolvedUnknowns, deadEnds,
                sessionStart, epistemic, guidance, vectors, assessment, subject,
                staleness, sessionContext, oracle, searchVars, goals >>

\* memory start <objective>
SessionStart ==
   /\ Cardinality(DOMAIN sessions) < MaxSessions
   /\ LET started == start(activeSession, sessions, << "o" >>, now)
      IN  /\ sessions' = started.sessions
          /\ activeSession' = started.file
          /\ result' = Some([ op |-> "start", err |-> started.err ])
   /\ UNCHANGED << projectFindings, projectUnknowns, projectDeadEnds, handoffs >>
   /\ CommandFrame

\* memory learned <text> [--scope <file>]
SessionLearned ==
   /\ Cardinality(DOMAIN projectFindings) < MaxStoredFindings
   /\ \E scope \in ScopeSamples :
         LET logged == learned(projectFindings, ActiveProject, << "J", "W", "T" >>,
                               scope, now)
         IN  /\ projectFindings' = logged.table
             /\ result' = Some([ op |-> "learned", err |-> logged.err ])
   /\ UNCHANGED << activeSession, sessions, handoffs, projectUnknowns, projectDeadEnds >>
   /\ CommandFrame

\* memory uncertain <question>
SessionUncertain ==
   /\ Cardinality(DOMAIN projectUnknowns) < MaxStoredUnknowns
   /\ LET logged == uncertain(projectUnknowns, ActiveProject, << "t", "t", "l" >>, now)
      IN  /\ projectUnknowns' = logged.table
          /\ result' = Some([ op |-> "uncertain", err |-> logged.err ])
   /\ UNCHANGED << activeSession, sessions, handoffs, projectFindings, projectDeadEnds >>
   /\ CommandFrame

\* memory tried <approach> <why-failed>
SessionTried ==
   /\ Cardinality(DOMAIN projectDeadEnds) < MaxStoredDeadEnds
   /\ LET logged == tried(projectDeadEnds, activeSession, << "a" >>, << "w" >>, now)
      IN  /\ projectDeadEnds' = logged.table
          /\ result' = Some([ op |-> "tried", err |-> logged.err ])
   /\ UNCHANGED << activeSession, sessions, handoffs, projectFindings, projectUnknowns >>
   /\ CommandFrame

\* memory done <summary>
SessionDone ==
   /\ LET ended == done(activeSession, sessions, handoffs, << "s" >>, now)
      IN  /\ activeSession' = ended.file
          /\ sessions' = ended.sessions
          /\ handoffs' = ended.handoffs
          /\ result' = Some([ op |-> "done", err |-> ended.err ])
   /\ UNCHANGED << projectFindings, projectUnknowns, projectDeadEnds >>
   /\ CommandFrame

\* memory status
SessionStatus ==
   /\ result' = Some([ op |-> "status", err |-> None, status |-> status(activeSession) ])
   /\ UNCHANGED << activeSession, sessions, handoffs, projectFindings, projectUnknowns,
                   projectDeadEnds >>
   /\ CommandFrame

NextCommands ==
   \/ SessionStart
   \/ SessionLearned
   \/ SessionUncertain
   \/ SessionTried
   \/ SessionDone
   \/ SessionStatus

SpecCommands == InitCommands /\ [][NextCommands]_vars

\* a session was started and not ended by done since
C25_Started ==
   /\ IsSome(activeSession)
   /\ Val(activeSession).SessionID \in DOMAIN sessions
   /\ sessions[Val(activeSession).SessionID].EndTime = None

\* C25: learned, uncertain, tried and done succeed only while a session is
\* active (after start, before the next done); without one they return the
\* "no active session" error and write no breadcrumb, handoff or session
\* change; done removes the active session, so that status reports
\* "no_session" until the next start.
C25_CommandsNeedActiveSession ==
   [][ /\ (SessionLearned \/ SessionUncertain \/ SessionTried \/ SessionDone) =>
             IF C25_Started
                THEN Val(result').err = None
                ELSE /\ Val(result').err = Some(ErrNoActiveSession)
                     /\ UNCHANGED << projectFindings, projectUnknowns, projectDeadEnds,
                                     handoffs, sessions, activeSession >>
       /\ (SessionDone /\ C25_Started) =>
             /\ activeSession' = None
             /\ Len(handoffs') = Len(handoffs) + 1
       /\ SessionStatus =>
             (Val(result').status = "no_session" <=> ~C25_Started)
       /\ (~C25_Started /\ C25_Started') => SessionStart
       /\ (C25_Started /\ ~C25_Started') => SessionDone ]_vars

\* A session was started, a finding logged and the session ended with done
\* (one handoff, the session row closed); status then reports no_session.
C25_Witness ==
   /\ IsSome(result)
   /\ Val(result).op = "status"
   /\ Val(result).status = "no_session"
   /\ Len(handoffs) = 1
   /\ Cardinality(DOMAIN projectFindings) = 1
   /\ sessions[1].EndTime = Some(now)

====
